---------------------------- MODULE Spec2Model ----------------------------
(***************************************************************************)
(* kiro-cli-acp: the bridge between the agent client protocol and the     *)
(* kiro-cli chat subprocess.                                               *)
(*                                                                         *)
(* Text is a sequence of tokens.  One token is one character of the       *)
(* transcript, except for the phrase tokens, which stand for a fixed run   *)
(* of plain characters:                                                    *)
(*   "ESC"  the escape character (U+001B or U+009B)                        *)
(*   "["    a character of the class [()#;? other than ";"                 *)
(*   ";"    the semicolon                                                  *)
(*   "3"    a decimal digit                                                *)
(*   "m"    a letter of the final-byte class A-O R Z c f-n q r y = > <     *)
(*   "x"    any other printable character                                  *)
(*   "e"    a printable character like "x", written to stderr             *)
(*   ">"    the character > (also a final byte),  " "  the blank           *)
(*   "CR" "LF"  carriage return and line feed                              *)
(*   "T"    the phrase  I will run the following command: ls (using tool:  *)
(*          shell)                                                         *)
(*   "D"    the phrase  - Completed in 0.1s                                *)
(*   "U"    the phrase  I will run the following command: cat (using tool: *)
(*          fs_read)                                                       *)
(*   "H"    the phrase  Thought:                                           *)
(*   "R"    the phrase  Running tool                                       *)
(*   "W"    the word WARN between two blanks                               *)
(***************************************************************************)
EXTENDS Integers, Sequences, FiniteSets, TLC

None == "none"

Last(s) == s[Len(s)]

Front(s) == SubSeq(s, 1, Len(s) - 1)

Min(a, b) == IF a < b THEN a ELSE b

Max(a, b) == IF a < b THEN b ELSE a

(***************************************************************************)
(* ansi.ts: stripAnsi                                                      *)
(***************************************************************************)
EscChars == {"ESC"}

IntroChars == {"[", ";"}

DigitChars == {"3"}

\* "T" and "U" begin with the letter I and "R" with the letter R, which are
\* final bytes.
FinalChars == {"3", "m", ">", "T", "U", "R"}

\* Number of leading tokens of s from position p on that belong to set.
RECURSIVE RunLen(_, _, _)
RunLen(s, p, set) ==
  IF p <= Len(s) /\ s[p] \in set THEN 1 + RunLen(s, p + 1, set) ELSE 0

\* [0-9A-ORZcf-nqry=><] at p: the position after the match, 0 when none.
MatchFinal(s, p) == IF p <= Len(s) /\ s[p] \in FinalChars THEN p + 1 ELSE 0

\* (?:;[0-9]{0,4})* then the final byte, tried greedily with backtracking.
RECURSIVE MatchSemi(_, _)
RECURSIVE MatchSemiDigits(_, _, _)
MatchSemiDigits(s, p, n) ==
  LET r == MatchSemi(s, p + 1 + n)
  IN  IF r # 0 THEN r
      ELSE IF n = 0 THEN 0
      ELSE MatchSemiDigits(s, p, n - 1)

MatchSemi(s, p) ==
  LET viaSemi == IF p <= Len(s) /\ s[p] = ";"
                 THEN MatchSemiDigits(s, p, Min(4, RunLen(s, p + 1, DigitChars)))
                 ELSE 0
  IN  IF viaSemi # 0 THEN viaSemi ELSE MatchFinal(s, p)

\* (?:[0-9]{1,4}(?:;[0-9]{0,4})*)? then the final byte.
RECURSIVE MatchGroup(_, _, _)
MatchGroup(s, p, j) ==
  IF j = 0 THEN MatchFinal(s, p)
  ELSE LET r == MatchSemi(s, p + j)
       IN  IF r # 0 THEN r ELSE MatchGroup(s, p, j - 1)

\* ANSI_PATTERN at position i: the position after the match, 0 when none.
\* The introducer run is greedy; a shorter run can never match, because an
\* introducer character is neither a digit nor a final byte.
AnsiMatch(s, i) ==
  IF i > Len(s) \/ s[i] \notin EscChars THEN 0
  ELSE LET p == i + 1 + RunLen(s, i + 1, IntroChars)
       IN  MatchGroup(s, p, Min(4, RunLen(s, p, DigitChars)))

\* What is left of a token consumed as the final byte: a phrase loses its
\* first letter only, the rest of it stays as plain text.
FinalResidue(ch) == IF ch \in {"T", "U", "R"} THEN <<"x">> ELSE <<>>

RECURSIVE StripFrom(_, _)
StripFrom(s, i) ==
  IF i > Len(s) THEN <<>>
  ELSE LET e == AnsiMatch(s, i)
       IN  IF e # 0 THEN FinalResidue(s[e - 1]) \o StripFrom(s, e)
           ELSE <<s[i]>> \o StripFrom(s, i + 1)

stripAnsi(input) == StripFrom(input, 1)

(***************************************************************************)
(* String.prototype.split with /\r\n|\r|\n/ and the test /(\r\n|\r|\n)$/   *)
(***************************************************************************)
RECURSIVE SplitFrom(_, _, _)
SplitFrom(s, i, cur) ==
  IF i > Len(s) THEN <<cur>>
  ELSE IF s[i] = "CR" /\ i < Len(s) /\ s[i + 1] = "LF"
       THEN <<cur>> \o SplitFrom(s, i + 2, <<>>)
  ELSE IF s[i] \in {"CR", "LF"}
       THEN <<cur>> \o SplitFrom(s, i + 1, <<>>)
  ELSE SplitFrom(s, i + 1, Append(cur, s[i]))

SplitLines(s) == SplitFrom(s, 1, <<>>)

EndsWithNewline(s) == Len(s) > 0 /\ Last(s) \in {"CR", "LF"}

(***************************************************************************)
(* kiro.ts: processChunk.  The result holds the texts of the chunk events  *)
(* handed to onEvent, in order, and the next buffer.                       *)
(***************************************************************************)
processChunk(rawChunk, isFinal, buffer) ==
  LET cleaned == stripAnsi(rawChunk)
      combined == buffer \o cleaned
      parts == SplitLines(combined)
      lines == Front(parts)
      nextBuffer == IF EndsWithNewline(combined) THEN <<>> ELSE Last(parts)
      flush == isFinal /\ Len(nextBuffer) > 0
  IN  [events |-> [i \in 1..Len(lines) |-> Append(lines[i], "LF")]
                    \o (IF flush THEN <<nextBuffer>> ELSE <<>>),
       buffer |-> IF flush THEN <<>> ELSE nextBuffer]

(***************************************************************************)
(* agent.ts, prompt: the closures of one prompt call.  A turn record t     *)
(* holds the call's locals sentAny, sendChain, toolSeq, activeTool and     *)
(* lineBuffer.  sendChain is the list of every update chained so far with  *)
(* the state of its delivery: "queued", "inflight", "ok" or "failed".      *)
(* An optional value is a sequence of length 0 (absent) or 1 (present).    *)
(***************************************************************************)
\* dropped and log are history variables: the updates sendUpdate was called
\* with and returned without chaining, and all the updates it was called
\* with, in order.  No guard and no update reads them.
NewTurn ==
  [sentAny |-> FALSE, sendChain |-> <<>>, toolSeq |-> 0,
   activeTool |-> <<>>, lineBuffer |-> <<>>, dropped |-> <<>>, log |-> <<>>,
   outputLines |-> <<>>]

Update(kind, text, id, status, output, tool) ==
  [sessionUpdate |-> kind, text |-> text, toolCallId |-> id,
   status |-> status, content |-> output, toolCall |-> tool]

\* Array.prototype.join("\n")
RECURSIVE JoinLF(_)
JoinLF(lines) ==
  IF Len(lines) = 0 THEN <<>>
  ELSE IF Len(lines) = 1 THEN lines[1]
  ELSE lines[1] \o <<"LF">> \o JoinLF(Tail(lines))

\* A sendUpdate without its guard.
NeverSuppressed(cancelled) == FALSE

\* The guard of sendUpdate: a cancelled session chains nothing.
Suppressed(cancelled) == cancelled

sendUpdate(t, cancelled, update) ==
  IF Suppressed(cancelled)
  THEN [t EXCEPT !.dropped = Append(@, update), !.log = Append(@, update)]
  ELSE [t EXCEPT !.sentAny = TRUE,
                 !.sendChain = Append(@, [update |-> update, st |-> "queued"]),
                 !.log = Append(@, update)]

sendText(t, cancelled, text) ==
  sendUpdate(t, cancelled,
             Update("agent_message_chunk", text, <<>>, None, <<>>, <<>>))

sendThought(t, cancelled, text) ==
  sendUpdate(t, cancelled,
             Update("agent_thought_chunk", text, <<>>, None, <<>>, <<>>))

\* A tool update that carries the newest output line only.
toolContentDelta(tool) ==
  IF Len(tool.output) = 0 THEN <<>> ELSE <<Last(tool.output)>>

\* toolContent and rawOutput: absent while no output line was pushed.
toolContent(tool) ==
  IF Len(tool.output) = 0 THEN <<>> ELSE <<JoinLF(tool.output)>>

sendToolCall(t, cancelled) ==
  IF t.activeTool = <<>> THEN t
  ELSE LET tool == t.activeTool[1]
       IN  sendUpdate(t, cancelled,
             Update("tool_call", <<>>, tool.id, "in_progress", <<>>,
                    <<[title |-> tool.title, kind |-> tool.kind,
                       rawInput |-> tool.rawInput]>>))

sendToolUpdate(t, cancelled, status) ==
  IF t.activeTool = <<>> THEN t
  ELSE LET tool == t.activeTool[1]
       IN  sendUpdate(t, cancelled,
             Update("tool_call_update", <<>>, tool.id, status,
                    toolContent(tool), <<>>))

\* White space as \s, trim and trimEnd see it.
Blank == {" ", "CR", "LF"}

\* String.prototype.trimEnd, and the \s*$ of toolStartRe.
RECURSIVE trimEnd(_)
trimEnd(str) ==
  IF Len(str) > 0 /\ Last(str) \in Blank THEN trimEnd(Front(str)) ELSE str

ToolPhrases == {"T", "U"}

\* toolStartRe: the line begins with the announcement's fixed words and,
\* after trailing blanks, ends with "(using tool: <name>)".
toolStartRe(line) ==
  LET l == trimEnd(line)
  IN  Len(l) > 0 /\ l[1] \in ToolPhrases /\ Last(l) \in ToolPhrases

\* toolDoneRe is not anchored: "- Completed in " anywhere in the line.
toolDoneRe(line) == \E i \in 1..Len(line) : line[i] = "D"

thoughtPrefixes == {"H"}

StartsWithThought(line) == Len(line) > 0 /\ line[1] \in thoughtPrefixes

\* An id made of the clock alone.
OpenToolSameId(line, now, seq) ==
  LET l == trimEnd(line)
      toolName == IF Last(l) = "T" THEN "shell" ELSE "fs_read"
  IN  [id |-> <<now, 0>>,
       kind |-> IF toolName = "shell" THEN "execute" ELSE "other",
       title |-> <<toolName>> \o l,
       rawInput |-> l,
       output |-> <<>>]

\* The tool call a tool-start line opens; the id is tool-<Date.now()>-<seq>.
OpenTool(line, now, seq) ==
  LET l == trimEnd(line)
      toolName == IF Last(l) = "T" THEN "shell" ELSE "fs_read"
  IN  [id |-> <<now, seq>>,
       kind |-> IF toolName = "shell" THEN "execute" ELSE "other",
       title |-> <<toolName>> \o l,
       rawInput |-> l,
       output |-> <<>>]

\* outputLines is a history variable: each line classified as tool output,
\* with the id of the call open then and the place in log of the update
\* that reports it first.
OutputLine(t, line) ==
  [id |-> t.activeTool[1].id, line |-> line, at |-> Len(t.log) + 1]

\* A handleLine that opens the new tool call over the open one.
handleLineKeepsOpen(t, cancelled, now, line) ==
  IF toolStartRe(line)
  THEN LET t1 == t
           t2 == [t1 EXCEPT !.toolSeq = @ + 1,
                            !.activeTool = <<OpenTool(line, now, t1.toolSeq + 1)>>]
       IN  sendToolCall(t2, cancelled)
  ELSE IF t.activeTool # <<>>
  THEN IF toolDoneRe(line)
       THEN [sendToolUpdate(t, cancelled, "completed") EXCEPT !.activeTool = <<>>]
       ELSE sendToolUpdate(
              [t EXCEPT !.activeTool[1].output = Append(@, line),
                        !.outputLines = Append(@, OutputLine(t, line))],
              cancelled, "in_progress")
  ELSE IF StartsWithThought(line)
  THEN sendThought(t, cancelled, Append(line, "LF"))
  ELSE sendText(t, cancelled, Append(line, "LF"))

\* A handleLine that looks for a reasoning prefix before the open tool call.
handleLineThoughtFirst(t, cancelled, now, line) ==
  IF toolStartRe(line)
  THEN LET t1 == IF t.activeTool # <<>>
                 THEN sendToolUpdate(t, cancelled, "completed") ELSE t
           t2 == [t1 EXCEPT !.toolSeq = @ + 1,
                            !.activeTool = <<OpenTool(line, now, t1.toolSeq + 1)>>]
       IN  sendToolCall(t2, cancelled)
  ELSE IF StartsWithThought(line)
  THEN sendThought(t, cancelled, Append(line, "LF"))
  ELSE IF t.activeTool # <<>>
  THEN IF toolDoneRe(line)
       THEN [sendToolUpdate(t, cancelled, "completed") EXCEPT !.activeTool = <<>>]
       ELSE sendToolUpdate(
              [t EXCEPT !.activeTool[1].output = Append(@, line),
                        !.outputLines = Append(@, OutputLine(t, line))],
              cancelled, "in_progress")
  ELSE sendText(t, cancelled, Append(line, "LF"))

\* Lines 628-668.
handleLine(t, cancelled, now, line) ==
  IF toolStartRe(line)
  THEN LET t1 == IF t.activeTool # <<>>
                 THEN sendToolUpdate(t, cancelled, "completed") ELSE t
           t2 == [t1 EXCEPT !.toolSeq = @ + 1,
                            !.activeTool = <<OpenTool(line, now, t1.toolSeq + 1)>>]
       IN  sendToolCall(t2, cancelled)
  ELSE IF t.activeTool # <<>>
  THEN IF toolDoneRe(line)
       THEN [sendToolUpdate(t, cancelled, "completed") EXCEPT !.activeTool = <<>>]
       ELSE sendToolUpdate(
              [t EXCEPT !.activeTool[1].output = Append(@, line),
                        !.outputLines = Append(@, OutputLine(t, line))],
              cancelled, "in_progress")
  ELSE IF StartsWithThought(line)
  THEN sendThought(t, cancelled, Append(line, "LF"))
  ELSE sendText(t, cancelled, Append(line, "LF"))

RECURSIVE handleLines(_, _, _, _)
handleLines(t, cancelled, now, lines) ==
  IF Len(lines) = 0 THEN t
  ELSE handleLines(handleLine(t, cancelled, now, Head(lines)),
                   cancelled, now, Tail(lines))

handleChunk(t, cancelled, now, text) ==
  LET parts == SplitLines(t.lineBuffer \o text)
  IN  handleLines([t EXCEPT !.lineBuffer = Last(parts)],
                  cancelled, now, Front(parts))

\* The onEvent callback of prompt applied to the chunk events of one
\* processChunk call, in order.
RECURSIVE onEvents(_, _, _, _)
onEvents(t, cancelled, now, events) ==
  IF Len(events) = 0 THEN t
  ELSE onEvents(handleChunk(t, cancelled, now, Head(events)),
                cancelled, now, Tail(events))

(***************************************************************************)
(* State.                                                                  *)
(***************************************************************************)
VARIABLES
  sessions,    \* this.sessions: session id -> Session, for the ids created
  zedDefault,  \* what zedDefaultMode reads from the host settings, or None
  envAgent,    \* the environment variable KIRO_ACP_AGENT, or None
  now,         \* Date.now()
  pc,          \* per prompt call: where the call stands
  call,        \* per prompt call: its constants sessionId and resume
  turn,        \* per prompt call: the locals its closures share
  proc,        \* per prompt call: the chat subprocess runKiroChat spawned
  exit,        \* per prompt call: the code of the close event, or None
  result,      \* per prompt call: what prompt returned, or None
  modeCall,    \* per setSessionMode call: where it stands and its arguments
  syncs,       \* background syncKiroDefaultAgent runs awaiting execCapture
  mk,          \* the marker-based runKiroChat: its locals and its events
  client,      \* how the protocol client behaves in this behaviour
  thrown,      \* per call: the message of the error the handler raised, or <<>>
  returned     \* history: <<session, stop reason>> of the prompt calls that
               \* returned after their subprocess had exited

vars ==
  <<sessions, zedDefault, envAgent, now, pc, call, turn, proc, exit, result,
    modeCall, syncs, mk, client, thrown, returned>>

\* The prompt calls and setSessionMode calls a behaviour may make.
PromptCalls == {"p1", "p2"}

ModeCalls == {"m1"}

\* The cancel call and the setSessionModel call whose error is recorded.
CancelCalls == {"k1"}

ModelCalls == {"n1"}

Calls == PromptCalls \cup ModeCalls \cup CancelCalls \cup ModelCalls

SessionIds == {"s1"}

ModeIds == {"default", "dev"}

\* Failed deliveries per behaviour.
MaxFail == 1

(***************************************************************************)
(* agent.ts: newSession, lines 437-513.  agents is the list listKiroAgents *)
(* scraped (each entry an id and whether a description followed it),       *)
(* defaultAgent the starred entry or None.                                 *)
(***************************************************************************)
\* A lookup that finds every mode.
HasAnyMode(modes, id) == TRUE

\* Array.prototype.some over the ids (lines 453, 765).
HasMode(modes, id) == \E i \in 1..Len(modes) : modes[i].id = id

\* requested && requested !== "default" ? requested
\*   : zedDefaultMode() ?? defaultAgent ?? agents[0]?.id ?? "default"
Preferred(agents, defaultAgent, requested, zed) ==
  IF requested # None /\ requested # "default" THEN requested
  ELSE IF zed # None THEN zed
  ELSE IF defaultAgent # None THEN defaultAgent
  ELSE IF Len(agents) > 0 THEN agents[1].id
  ELSE "default"

\* The guard of the push at lines 453-457.
MissingPreferred(modes, preferred) ==
  preferred # "default" /\ ~HasMode(modes, preferred)

AvailableModes(agents, preferred) ==
  LET listed == IF Len(agents) > 0 THEN agents
                ELSE <<[id |-> "default", description |-> None]>>
  IN  IF MissingPreferred(listed, preferred)
      THEN Append(listed, [id |-> preferred, description |-> "From settings"])
      ELSE listed

\* The models newSession offers (lines 465-495), KIRO_ACP_MODEL being unset.
ModelIds ==
  <<"auto", "claude-sonnet-4.5", "claude-sonnet-4", "claude-haiku-4.5",
    "claude-opus-4.5">>

\* failedSyncs is a history field: the desired modes whose synchronization
\* failed in the session.
NewSessionRecord(agents, defaultAgent, requested, zed) ==
  LET preferred == Preferred(agents, defaultAgent, requested, zed)
  IN  [started |-> FALSE,
       models |-> [currentModelId |-> "auto", availableModels |-> ModelIds],
       cancelled |-> FALSE,
       preflightOk |-> FALSE,
       kiroDefaultAgent |-> defaultAgent,
       defaultAgentSync |-> [lastAttempt |-> None, lastOk |-> None],
       failedSyncs |-> {},
       child |-> None,
       modes |-> [currentModeId |-> preferred,
                  availableModes |-> AvailableModes(agents, preferred)]]

(***************************************************************************)
(* agent.ts: syncKiroDefaultAgent, lines 369-391.  SyncDesired is the mode *)
(* the call will try to set, None when it returns before execCapture.      *)
(***************************************************************************)
SyncDesired(session, zed) ==
  IF zed = None \/ zed = "default" THEN None
  ELSE IF session.defaultAgentSync.lastAttempt = zed
          /\ session.defaultAgentSync.lastOk = "failed" THEN None
  ELSE IF session.kiroDefaultAgent = zed THEN None
  ELSE zed

\* Lines 388-390, after execCapture resolved.
SyncResult(session, desired, ok) ==
  [session EXCEPT
     !.defaultAgentSync = [lastAttempt |-> desired,
                           lastOk |-> IF ok THEN "ok" ELSE "failed"],
     !.kiroDefaultAgent = IF ok THEN desired ELSE @,
     !.failedSyncs = IF ok THEN @ ELSE @ \cup {desired}]

(***************************************************************************)
(* The update chain of a prompt call.  sendChain.then(...) runs the next   *)
(* delivery in the microtask after the one before it settled, so between   *)
(* two steps the first unsettled update of a chain is in flight.           *)
(***************************************************************************)
Settled(e) == e.st \in {"ok", "failed"}

\* Deliveries started as soon as they are asked for, without a chain.
StartsAtOnce(chain, i) == chain[i].st = "queued"

\* The updates whose delivery may be started: the first that is not settled,
\* and only when nothing of the chain is in flight.
MayStart(chain, i) ==
  /\ chain[i].st = "queued"
  /\ \A j \in 1..(i - 1) : Settled(chain[j])

Pump(chain) ==
  [i \in 1..Len(chain) |->
     IF MayStart(chain, i) THEN [chain[i] EXCEPT !.st = "inflight"]
     ELSE chain[i]]

PumpTurn(t) == [t EXCEPT !.sendChain = Pump(@)]

\* A prompt that does not await sendChain.
AlwaysSettled(t) == TRUE

\* await sendChain resumes once every update chained so far has settled.
ChainSettled(t) == \A i \in 1..Len(t.sendChain) : Settled(t.sendChain[i])

FailCount ==
  LET failedOf(c) == {i \in 1..Len(turn[c].sendChain) :
                        turn[c].sendChain[i].st = "failed"}
  IN  Cardinality(UNION {{<<c, i>> : i \in failedOf(c)} : c \in PromptCalls})

\* resume: whether the subprocess was given --resume (kiro.ts, line 30).
NoProc ==
  [alive |-> FALSE, stdout |-> <<>>, stderr |-> <<>>, rawStdout |-> <<>>,
   stdoutBuffer |-> <<>>, stderrBuffer |-> <<>>, signalled |-> FALSE,
   resume |-> FALSE]

\* emitted is a history variable: for each chunk event made of stdout, the
\* part of cleanStdout its text was taken from, [from, to).
NoMarker ==
  [input |-> <<>>, rawStdout |-> <<>>, rawCarry |-> <<>>, cleanStdout |-> <<>>,
   emitting |-> FALSE, emitCleanIndex |-> 0, preludeIndex |-> 0,
   events |-> <<>>, closed |-> TRUE, emitted |-> <<>>]

(***************************************************************************)
(* agent.ts: prompt, lines 522-750.                                        *)
(***************************************************************************)
Cancelled(c) == sessions[call[c].sessionId].cancelled

\* What execCapture of "whoami" lets ensureKiroReady answer: ok, or one of
\* its messages (the binary is missing, the exit code is not 0; the two
\* messages about the JSON output are handled like these).
ReadyAnswers == {"ok", "ENOENT", "nonzero"}

\* The protocol client of a behaviour is of one of three kinds:
\*   sequential   awaits each prompt before it sends the next one
\*   overlapping  sends a second prompt of the session at any time
\*   switching    sends one prompt, and setSessionMode at any time
\* Nothing in prompt refuses an overlapping call.
Clients == {"sequential", "overlapping", "switching"}

\* What a chat subprocess may write to stdout and to stderr, per kind of
\* client: the long scripts are given to the turns of a sequential client.
Scripts ==
  [sequential |-> { <<"T", "LF", "x", "LF", "D", "LF", "x", "LF">>,
                    <<"T", "LF", "U", "LF", "x", "LF", "H">> },
   overlapping |-> { <<"T", "LF">> },
   switching |-> { <<"T", "LF">> }]

ErrScripts ==
  [sequential |-> { <<>>, <<"e", "LF">> },
   overlapping |-> { <<>> },
   switching |-> { <<>> }]

\* A call slot is taken up by one call at a time.  A sequential client has a
\* single call in progress; the other clients make each call once.
SlotFree(c) ==
  CASE client = "sequential" -> c = "p1" /\ pc[c] \in {"idle", "done"}
    [] client = "overlapping" -> pc[c] = "idle" /\ (c = "p2" => pc["p1"] # "idle")
    [] client = "switching" -> c = "p1" /\ pc[c] = "idle"

ExitCodes == {"0", "2", "null"}

\* A prompt that asks for --resume whatever the session's history.
ResumeAlways(session) == TRUE

\* Line 530: const resume = session.started.
ResumeOf(session) == session.started

\* A prompt that runs the capability check every time.
AlwaysPreflight(session) == TRUE

\* Line 679: the capability check is skipped once it passed.
NeedsPreflight(session) == ~session.preflightOk

\* exit.code ?? "?" (lines 740, 745).
CodeText(code) == IF code = "null" THEN "?" ELSE code

\* An internal error that does not tell the code.
ErrorMessageNoCode(code) == <<"kiro-cli exited with code">>

\* Line 740: the message of the internal error.
ErrorMessage(code) == <<"kiro-cli exited with code", CodeText(code)>>

\* A notice that does not tell the code.
ExitNoticeNoCode(code) == <<"LF", "(kiro-cli exit code)", "LF">>

\* Line 745: the text of the exit-code notice.
ExitNotice(code) == <<"LF", "(kiro-cli exit code:", CodeText(code), ")", "LF">>

\* A handler that raises nothing.
NothingRaised == <<>>

\* The message of the errors raised for a missing session, mode or model.
SessionNotFound == <<"Session not found">>

InvalidMode == <<"Invalid mode">>

InvalidModel == <<"Invalid model">>

\* The rejection of client.sessionUpdate, passed on by an await without catch.
DeliveryFailed == <<"sessionUpdate rejected">>

\* Line 687: syncKiroDefaultAgent runs up to its execCapture, if it gets there.
EnterSync(c, s, session) ==
  LET desired == SyncDesired(session, zedDefault)
  IN  /\ pc' = [pc EXCEPT ![c] = IF desired = None THEN "synced" ELSE "syncing"]
      /\ call' = [call EXCEPT ![c] = [sessionId |-> s,
                                      resume |-> IF pc[c] = "preflight"
                                                 THEN call[c].resume
                                                 ELSE ResumeOf(session),
                                      desired |-> desired]]

\* Lines 522-530 and 679-687, up to the first await.
Prompt(c, s) ==
  /\ SlotFree(c)
  /\ s \in DOMAIN sessions
  /\ LET session == [sessions[s] EXCEPT !.cancelled = FALSE]
     IN  /\ sessions' = [sessions EXCEPT ![s] = session]
         /\ turn' = [turn EXCEPT ![c] = NewTurn]
         /\ proc' = [proc EXCEPT ![c] = NoProc]
         /\ exit' = [exit EXCEPT ![c] = None]
         /\ result' = [result EXCEPT ![c] = None]
         /\ thrown' = [thrown EXCEPT ![c] = <<>>]
         /\ IF NeedsPreflight(session)
            THEN /\ pc' = [pc EXCEPT ![c] = "preflight"]
                 /\ call' = [call EXCEPT ![c] = [sessionId |-> s,
                                                 resume |-> ResumeOf(session),
                                                 desired |-> None]]
            ELSE EnterSync(c, s, session)
  /\ UNCHANGED <<zedDefault, envAgent, now, modeCall, syncs, mk, client,
                 returned>>

\* ensureKiroReady resolves (lines 135-173) and prompt goes on (681-687).
PreflightDone(c, answer) ==
  /\ pc[c] = "preflight"
  /\ LET s == call[c].sessionId
     IN  IF answer = "ok"
         THEN /\ sessions' = [sessions EXCEPT ![s].preflightOk = TRUE]
              /\ EnterSync(c, s, sessions'[s])
              /\ UNCHANGED turn
         ELSE /\ turn' = [turn EXCEPT ![c] =
                            PumpTurn(sendText(@, Cancelled(c), <<answer>>))]
              /\ pc' = [pc EXCEPT ![c] = "faildrain"]
              /\ UNCHANGED <<sessions, call>>
  /\ UNCHANGED <<zedDefault, envAgent, now, proc, exit, result, modeCall,
                 syncs, mk, client, thrown, returned>>

\* Line 683: the failed check's message was awaited; the turn ends.
FinishFail(c) ==
  /\ pc[c] = "faildrain"
  /\ ChainSettled(turn[c])
  /\ pc' = [pc EXCEPT ![c] = "done"]
  /\ result' = [result EXCEPT ![c] = "end_turn"]
  /\ UNCHANGED <<sessions, zedDefault, envAgent, now, call, turn, proc, exit,
                 modeCall, syncs, mk, client, thrown, returned>>

\* The execCapture of syncKiroDefaultAgent resolves (lines 388-390).
PromptSyncDone(c, ok) ==
  /\ pc[c] = "syncing"
  /\ sessions' = [sessions EXCEPT ![call[c].sessionId] =
                    SyncResult(@, call[c].desired, ok)]
  /\ pc' = [pc EXCEPT ![c] = "synced"]
  /\ UNCHANGED <<zedDefault, envAgent, now, call, turn, proc, exit, result,
                 modeCall, syncs, mk, client, thrown, returned>>

\* Lines 689-715: runKiroChat spawns the subprocess.
Launch(c, script, errScript) ==
  /\ pc[c] = "synced"
  /\ proc' = [proc EXCEPT ![c] =
                [NoProc EXCEPT !.alive = TRUE, !.stdout = script,
                               !.stderr = errScript,
                               !.resume = call[c].resume]]
  /\ sessions' = [sessions EXCEPT ![call[c].sessionId].child = c]
  /\ pc' = [pc EXCEPT ![c] = "running"]
  /\ UNCHANGED <<zedDefault, envAgent, now, call, turn, exit, result,
                 modeCall, syncs, mk, client, thrown, returned>>

\* kiro.ts 79-82: a stdout data event carrying the next n characters.
StdoutData(c, n) ==
  /\ pc[c] = "running"
  /\ n \in 1..Len(proc[c].stdout)
  /\ LET data == SubSeq(proc[c].stdout, 1, n)
         r == processChunk(data, FALSE, proc[c].stdoutBuffer)
     IN  /\ proc' = [proc EXCEPT
                       ![c].stdout = SubSeq(@, n + 1, Len(@)),
                       ![c].rawStdout = @ \o data,
                       ![c].stdoutBuffer = r.buffer]
         /\ turn' = [turn EXCEPT ![c] =
                       PumpTurn(onEvents(@, Cancelled(c), now, r.events))]
  /\ UNCHANGED <<sessions, zedDefault, envAgent, now, pc, call, exit, result,
                 modeCall, syncs, mk, client, thrown, returned>>

\* kiro.ts 90-93: a stderr data event.
StderrData(c, n) ==
  /\ pc[c] = "running"
  /\ n \in 1..Len(proc[c].stderr)
  /\ LET data == SubSeq(proc[c].stderr, 1, n)
         r == processChunk(data, FALSE, proc[c].stderrBuffer)
     IN  /\ proc' = [proc EXCEPT
                       ![c].stderr = SubSeq(@, n + 1, Len(@)),
                       ![c].stderrBuffer = r.buffer]
         /\ turn' = [turn EXCEPT ![c] =
                       PumpTurn(onEvents(@, Cancelled(c), now, r.events))]
  /\ UNCHANGED <<sessions, zedDefault, envAgent, now, pc, call, exit, result,
                 modeCall, syncs, mk, client, thrown, returned>>

\* A prompt that closes the open tool call as completed whatever the code.
AfterCloseCompleted(t, cancelled, code) ==
  LET t1 == IF Len(t.lineBuffer) > 0
            THEN [handleLine(t, cancelled, now, t.lineBuffer)
                    EXCEPT !.lineBuffer = <<>>]
            ELSE t
  IN  IF t1.activeTool # <<>>
      THEN [sendToolUpdate(t1, cancelled, "completed") EXCEPT !.activeTool = <<>>]
      ELSE t1

\* A prompt that flushes lineBuffer and leaves an open tool call open.
AfterCloseNoForce(t, cancelled, code) ==
  IF Len(t.lineBuffer) > 0
  THEN [handleLine(t, cancelled, now, t.lineBuffer) EXCEPT !.lineBuffer = <<>>]
  ELSE t

\* Lines 725-732 of prompt, after the close event.
AfterClose(t, cancelled, code) ==
  LET t1 == IF Len(t.lineBuffer) > 0
            THEN [handleLine(t, cancelled, now, t.lineBuffer)
                    EXCEPT !.lineBuffer = <<>>]
            ELSE t
  IN  IF t1.activeTool # <<>>
      THEN [sendToolUpdate(t1, cancelled,
                           IF code = "0" THEN "completed" ELSE "failed")
              EXCEPT !.activeTool = <<>>]
      ELSE t1

\* The close event: kiro.ts 84-88 flushes both buffers, then the listener of
\* prompt (line 721) resolves and lines 724-733 run in the same turn of the
\* event loop.  Output the subprocess never wrote stays in stdout, stderr.
Close(c, code) ==
  /\ pc[c] = "running"
  /\ \E cancelled \in {Cancelled(c)},
        out \in {processChunk(<<>>, TRUE, proc[c].stdoutBuffer)},
        err \in {processChunk(<<>>, TRUE, proc[c].stderrBuffer)} :
       \E t1 \in {onEvents(turn[c], cancelled, now, out.events)} :
         \E t2 \in {onEvents(t1, cancelled, now, err.events)} :
           /\ proc' = [proc EXCEPT ![c].alive = FALSE,
                                   ![c].stdoutBuffer = out.buffer,
                                   ![c].stderrBuffer = err.buffer]
           /\ turn' = [turn EXCEPT ![c] =
                         PumpTurn(AfterClose(t2, cancelled, code))]
  /\ exit' = [exit EXCEPT ![c] = code]
  /\ sessions' = [sessions EXCEPT ![call[c].sessionId].child = None]
  /\ pc' = [pc EXCEPT ![c] = "drain"]
  /\ UNCHANGED <<zedDefault, envAgent, now, call, result, modeCall, syncs, mk, client,
                 thrown, returned>>

\* Lines 733-749, once await sendChain resumed.
Finish(c) ==
  /\ pc[c] = "drain"
  /\ ChainSettled(turn[c])
  /\ LET s == call[c].sessionId
     IN  IF sessions[s].cancelled
         THEN /\ result' = [result EXCEPT ![c] = "cancelled"]
              /\ pc' = [pc EXCEPT ![c] = "done"]
              /\ returned' = returned \cup {<<s, "cancelled">>}
              /\ UNCHANGED <<sessions, turn, thrown>>
         ELSE IF ~turn[c].sentAny /\ exit[c] # "0"
         THEN /\ result' = [result EXCEPT ![c] = "error"]
              /\ thrown' = [thrown EXCEPT ![c] = ErrorMessage(exit[c])]
              /\ pc' = [pc EXCEPT ![c] = "done"]
              /\ UNCHANGED <<sessions, turn, returned>>
         ELSE IF exit[c] # "0"
         THEN /\ turn' = [turn EXCEPT ![c] =
                            PumpTurn(sendText(@, Cancelled(c), ExitNotice(exit[c])))]
              /\ pc' = [pc EXCEPT ![c] = "notice"]
              /\ UNCHANGED <<sessions, result, thrown, returned>>
         ELSE /\ sessions' = [sessions EXCEPT ![s].started = TRUE]
              /\ result' = [result EXCEPT ![c] = "end_turn"]
              /\ pc' = [pc EXCEPT ![c] = "done"]
              /\ returned' = returned \cup {<<s, "end_turn">>}
              /\ UNCHANGED <<turn, thrown>>
  /\ UNCHANGED <<zedDefault, envAgent, now, call, proc, exit, modeCall,
                 syncs, mk, client>>

\* Lines 745-749: the exit-code notice was awaited.
FinishNotice(c) ==
  /\ pc[c] = "notice"
  /\ ChainSettled(turn[c])
  /\ sessions' = [sessions EXCEPT ![call[c].sessionId].started = TRUE]
  /\ result' = [result EXCEPT ![c] = "end_turn"]
  /\ pc' = [pc EXCEPT ![c] = "done"]
  /\ returned' = returned \cup {<<call[c].sessionId, "end_turn">>}
  /\ UNCHANGED <<zedDefault, envAgent, now, call, turn, proc, exit, modeCall,
                 syncs, mk, client, thrown>>

\* A chain without its catch: a rejection leaves the later updates unsent.
DeliveryAborts(chain, i, ok) ==
  IF ok THEN Pump([chain EXCEPT ![i].st = "ok"])
  ELSE [chain EXCEPT ![i].st = "failed"]

\* client.sessionUpdate of the update in flight settles (lines 538-545); the
\* catch swallows a rejection and the next update of the chain starts.
DeliveryResult(chain, i, ok) ==
  Pump([chain EXCEPT ![i].st = IF ok THEN "ok" ELSE "failed"])

DeliverEnd(c, ok) ==
  /\ ok \/ FailCount < MaxFail
  /\ \E i \in 1..Len(turn[c].sendChain) :
       /\ turn[c].sendChain[i].st = "inflight"
       /\ turn' = [turn EXCEPT ![c].sendChain = DeliveryResult(@, i, ok)]
  /\ UNCHANGED <<sessions, zedDefault, envAgent, now, pc, call, proc, exit,
                 result, modeCall, syncs, mk, client, thrown, returned>>

\* A cancel that signals nothing.
KillNothing(procs, child) == procs

\* Line 756: session.child?.kill("SIGINT").
Kill(procs, child) ==
  IF child # None THEN [procs EXCEPT ![child].signalled = TRUE] ELSE procs

\* Lines 752-757, for a session of the registry.
Cancel(k, s) ==
  /\ s \in DOMAIN sessions
  /\ sessions' = [sessions EXCEPT ![s].cancelled = TRUE]
  /\ proc' = Kill(proc, sessions[s].child)
  /\ thrown' = [thrown EXCEPT ![k] = <<>>]
  /\ UNCHANGED <<zedDefault, envAgent, now, pc, call, turn, exit, result,
                 modeCall, syncs, mk, client, returned>>

(***************************************************************************)
(* agent.ts: setSessionMode, lines 759-788.                                *)
(***************************************************************************)
RequestedModes == {"default", "dev", "zzz"}

IdleModeCall == [pc |-> "idle", sessionId |-> None, modeId |-> None, before |-> None]

\* Lines 772-777: whether the call starts a background synchronization, and
\* for which mode (None when syncKiroDefaultAgent returns at once).
ModeSyncDesired(session, modeId) ==
  IF zedDefault = modeId /\ session.kiroDefaultAgent # modeId
  THEN SyncDesired(session, zedDefault)
  ELSE None

SetSessionMode(m, s, modeId) ==
  /\ client = "switching"
  /\ modeCall[m].pc = "idle"
  /\ s \in DOMAIN sessions
  /\ LET session == sessions[s]
         entry == [pc |-> "notify", sessionId |-> s, modeId |-> modeId,
                   before |-> session.modes.currentModeId]
     IN  IF ~HasMode(session.modes.availableModes, modeId)
         THEN /\ modeCall' = [modeCall EXCEPT ![m] = [entry EXCEPT !.pc = "rejected"]]
              /\ thrown' = [thrown EXCEPT ![m] = InvalidMode]
              /\ UNCHANGED <<sessions, syncs>>
         ELSE /\ sessions' = [sessions EXCEPT ![s].modes.currentModeId = modeId]
              /\ thrown' = [thrown EXCEPT ![m] = <<>>]
              /\ syncs' = IF ModeSyncDesired(sessions'[s], modeId) # None
                          THEN syncs \cup {[by |-> m, sessionId |-> s,
                                            desired |-> zedDefault]}
                          ELSE syncs
              /\ modeCall' = [modeCall EXCEPT ![m] = entry]
  /\ UNCHANGED <<zedDefault, envAgent, now, pc, call, turn, proc, exit,
                 result, mk, client, returned>>

\* Lines 779-787: the awaited current_mode_update notification settles.
ModeNotifyDone(m, ok) ==
  /\ modeCall[m].pc = "notify"
  /\ modeCall' = [modeCall EXCEPT ![m].pc = IF ok THEN "done" ELSE "rejected"]
  /\ thrown' = [thrown EXCEPT ![m] = IF ok THEN <<>> ELSE DeliveryFailed]
  /\ UNCHANGED <<sessions, zedDefault, envAgent, now, pc, call, turn, proc,
                 exit, result, syncs, mk, client, returned>>

\* The execCapture of a background syncKiroDefaultAgent resolves.
ModeSyncDone(task, ok) ==
  /\ task \in syncs
  /\ syncs' = syncs \ {task}
  /\ sessions' = [sessions EXCEPT ![task.sessionId] =
                    SyncResult(@, task.desired, ok)]
  /\ UNCHANGED <<zedDefault, envAgent, now, pc, call, turn, proc, exit,
                 result, modeCall, mk, client, thrown, returned>>

(***************************************************************************)
(* SpecTurn: the turns of one session.  It starts from the registry as     *)
(* newSession leaves it when "agent list" printed "* default" and "dev"    *)
(* and the host settings name dev as the default mode.                     *)
(***************************************************************************)
ListedAgents ==
  <<[id |-> "default", description |-> None], [id |-> "dev", description |-> None]>>

IdleCall == [sessionId |-> None, resume |-> FALSE, desired |-> None]

InitCalls ==
  /\ now = 0
  /\ pc = [c \in PromptCalls |-> "idle"]
  /\ call = [c \in PromptCalls |-> IdleCall]
  /\ turn = [c \in PromptCalls |-> NewTurn]
  /\ proc = [c \in PromptCalls |-> NoProc]
  /\ exit = [c \in PromptCalls |-> None]
  /\ result = [c \in PromptCalls |-> None]
  /\ modeCall = [m \in ModeCalls |-> IdleModeCall]
  /\ syncs = {}
  /\ mk = NoMarker
  /\ thrown = [k \in Calls |-> <<>>]
  /\ returned = {}

InitTurn ==
  /\ client \in Clients
  /\ zedDefault = "dev"
  /\ envAgent = None
  /\ sessions = [s \in SessionIds |->
                   NewSessionRecord(ListedAgents, "default", envAgent, zedDefault)]
  /\ InitCalls

NextTurn ==
  \/ \E c \in PromptCalls, s \in SessionIds : Prompt(c, s)
  \/ \E c \in PromptCalls, answer \in ReadyAnswers : PreflightDone(c, answer)
  \/ \E c \in PromptCalls : FinishFail(c)
  \/ \E c \in PromptCalls, ok \in BOOLEAN : PromptSyncDone(c, ok)
  \/ \E c \in PromptCalls, script \in Scripts[client],
        errScript \in ErrScripts[client] : Launch(c, script, errScript)
  \/ \E c \in PromptCalls, n \in 1..8 : StdoutData(c, n)
  \/ \E c \in PromptCalls, n \in 1..2 : StderrData(c, n)
  \/ \E c \in PromptCalls, code \in ExitCodes : Close(c, code)
  \/ \E c \in PromptCalls : Finish(c)
  \/ \E c \in PromptCalls : FinishNotice(c)
  \/ \E c \in PromptCalls, ok \in BOOLEAN : DeliverEnd(c, ok)
  \/ \E k \in CancelCalls, s \in SessionIds : Cancel(k, s)
  \/ \E m \in ModeCalls, s \in SessionIds, modeId \in RequestedModes :
       SetSessionMode(m, s, modeId)
  \/ \E m \in ModeCalls, ok \in BOOLEAN : ModeNotifyDone(m, ok)
  \/ \E task \in syncs, ok \in BOOLEAN : ModeSyncDone(task, ok)

SpecTurn == InitTurn /\ [][NextTurn]_vars

(***************************************************************************)
(* agent.ts: setSessionModel (lines 790-804), and the four handlers called *)
(* with a session id that is not in the registry (lines 524, 754, 763,     *)
(* 794).                                                                   *)
(***************************************************************************)
\* The model ids a client asks for.
RequestedModels == {"auto", "claude-sonnet-4", "zzz"}

HasModel(models, id) == \E i \in 1..Len(models) : models[i] = id

\* Lines 790-804, for a session of the registry.
SetSessionModel(n, s, modelId) ==
  /\ s \in DOMAIN sessions
  /\ IF ~HasModel(sessions[s].models.availableModels, modelId)
     THEN /\ thrown' = [thrown EXCEPT ![n] = InvalidModel]
          /\ UNCHANGED sessions
     ELSE /\ sessions' = [sessions EXCEPT ![s].models.currentModelId = modelId]
          /\ thrown' = [thrown EXCEPT ![n] = <<>>]
  /\ UNCHANGED <<zedDefault, envAgent, now, pc, call, turn, proc, exit,
                 result, modeCall, syncs, mk, client, returned>>

\* Lines 523-524: prompt finds no session and throws.
PromptUnknown(c, s) ==
  /\ pc[c] \in {"idle", "done"}
  /\ s \notin DOMAIN sessions
  /\ thrown' = [thrown EXCEPT ![c] = SessionNotFound]
  /\ UNCHANGED <<sessions, zedDefault, envAgent, now, pc, call, turn, proc,
                 exit, result, modeCall, syncs, mk, client, returned>>

\* Lines 753-754: cancel finds no session and throws.
CancelUnknown(k, s) ==
  /\ s \notin DOMAIN sessions
  /\ thrown' = [thrown EXCEPT ![k] = SessionNotFound]
  /\ UNCHANGED <<sessions, zedDefault, envAgent, now, pc, call, turn, proc,
                 exit, result, modeCall, syncs, mk, client, returned>>

\* Lines 762-763: setSessionMode finds no session and throws.
SetSessionModeUnknown(m, s) ==
  /\ modeCall[m].pc = "idle"
  /\ s \notin DOMAIN sessions
  /\ thrown' = [thrown EXCEPT ![m] = SessionNotFound]
  /\ UNCHANGED <<sessions, zedDefault, envAgent, now, pc, call, turn, proc,
                 exit, result, modeCall, syncs, mk, client, returned>>

\* Lines 793-794: setSessionModel finds no session and throws.
SetSessionModelUnknown(n, s) ==
  /\ s \notin DOMAIN sessions
  /\ thrown' = [thrown EXCEPT ![n] = SessionNotFound]
  /\ UNCHANGED <<sessions, zedDefault, envAgent, now, pc, call, turn, proc,
                 exit, result, modeCall, syncs, mk, client, returned>>

(***************************************************************************)
(* SpecRegistry: a client that runs one turn of the session it created and *)
(* meanwhile calls the handlers with ids of the registry and with an id    *)
(* that is not in it.                                                      *)
(***************************************************************************)
UnknownIds == {"s0"}

InitRegistry ==
  /\ client = "switching"
  /\ zedDefault = "dev"
  /\ envAgent = None
  /\ sessions = [s \in SessionIds |->
                   NewSessionRecord(ListedAgents, "default", envAgent, zedDefault)]
  /\ InitCalls

NextRegistry ==
  \/ \E c \in PromptCalls, s \in SessionIds : Prompt(c, s)
  \/ \E c \in PromptCalls, answer \in ReadyAnswers : PreflightDone(c, answer)
  \/ \E c \in PromptCalls : FinishFail(c)
  \/ \E c \in PromptCalls, ok \in BOOLEAN : PromptSyncDone(c, ok)
  \/ \E c \in PromptCalls, script \in Scripts[client] : Launch(c, script, <<>>)
  \/ \E c \in PromptCalls, n \in 1..2 : StdoutData(c, n)
  \/ \E c \in PromptCalls, code \in ExitCodes : Close(c, code)
  \/ \E c \in PromptCalls : Finish(c)
  \/ \E c \in PromptCalls : FinishNotice(c)
  \/ \E c \in PromptCalls, ok \in BOOLEAN : DeliverEnd(c, ok)
  \/ \E k \in CancelCalls, s \in SessionIds : Cancel(k, s)
  \/ \E n \in ModelCalls, s \in SessionIds, modelId \in RequestedModels :
       SetSessionModel(n, s, modelId)
  \/ \E c \in PromptCalls, s \in UnknownIds : PromptUnknown(c, s)
  \/ \E k \in CancelCalls, s \in UnknownIds : CancelUnknown(k, s)
  \/ \E m \in ModeCalls, s \in UnknownIds : SetSessionModeUnknown(m, s)
  \/ \E n \in ModelCalls, s \in UnknownIds : SetSessionModelUnknown(n, s)

SpecRegistry == InitRegistry /\ [][NextRegistry]_vars

(***************************************************************************)
(* SpecSync: a client that sends one prompt after the other, to a chat     *)
(* subprocess that writes nothing, while the user edits default_mode in    *)
(* the settings file, which zedDefaultMode reads at every call (lines      *)
(* 297-322).                                                               *)
(***************************************************************************)
SettingsModes == {"dev", "zzz"}

EditSettings(z) ==
  /\ z # zedDefault
  /\ zedDefault' = z
  /\ UNCHANGED <<sessions, envAgent, now, pc, call, turn, proc, exit, result,
                 modeCall, syncs, mk, client, thrown, returned>>

InitSync ==
  /\ client = "sequential"
  /\ zedDefault \in SettingsModes
  /\ envAgent = None
  /\ sessions = [s \in SessionIds |->
                   NewSessionRecord(ListedAgents, "default", envAgent, zedDefault)]
  /\ InitCalls

NextSync ==
  \/ \E c \in PromptCalls, s \in SessionIds : Prompt(c, s)
  \/ \E c \in PromptCalls : PreflightDone(c, "ok")
  \/ \E c \in PromptCalls, ok \in BOOLEAN : PromptSyncDone(c, ok)
  \/ \E c \in PromptCalls : Launch(c, <<>>, <<>>)
  \/ \E c \in PromptCalls : Close(c, "0")
  \/ \E c \in PromptCalls : Finish(c)
  \/ \E z \in SettingsModes : EditSettings(z)

SpecSync == InitSync /\ [][NextSync]_vars

(***************************************************************************)
(* SpecChunk: one turn whose subprocess writes an arbitrary short stream   *)
(* to stdout, delivered in arbitrary chunks, and then closes.  It starts   *)
(* where Launch leaves a first call.                                       *)
(***************************************************************************)
MaxLen == 3

Alphabet == {"ESC", "[", "3", "m", "x", "CR", "LF"}

Streams == UNION {[1..n -> Alphabet] : n \in 0..MaxLen}

InitChunk ==
  /\ client = "sequential"
  /\ zedDefault = None
  /\ envAgent = None
  /\ sessions = [s \in SessionIds |->
                   [NewSessionRecord(ListedAgents, "default", envAgent, zedDefault)
                      EXCEPT !.preflightOk = TRUE, !.child = "p1"]]
  /\ now = 0
  /\ pc = [c \in PromptCalls |-> IF c = "p1" THEN "running" ELSE "idle"]
  /\ call = [c \in PromptCalls |->
               IF c = "p1" THEN [IdleCall EXCEPT !.sessionId = "s1"] ELSE IdleCall]
  /\ turn = [c \in PromptCalls |-> NewTurn]
  /\ \E stream \in Streams :
       proc = [c \in PromptCalls |->
                 IF c = "p1"
                 THEN [NoProc EXCEPT !.alive = TRUE, !.stdout = stream]
                 ELSE NoProc]
  /\ exit = [c \in PromptCalls |-> None]
  /\ result = [c \in PromptCalls |-> None]
  /\ modeCall = [m \in ModeCalls |-> IdleModeCall]
  /\ syncs = {}
  /\ mk = NoMarker
  /\ thrown = [k \in Calls |-> <<>>]
  /\ returned = {}

NextChunk ==
  \/ \E n \in 1..MaxLen : StdoutData("p1", n)
  \/ \E code \in ExitCodes : Close("p1", code)

SpecChunk == InitChunk /\ [][NextChunk]_vars

\* The updates a call chained, in order.
ChainUpdates(t) == [i \in 1..Len(t.sendChain) |-> t.sendChain[i].update]

\* The turn of a call whose subprocess wrote raw to stdout in a single chunk,
\* nothing to stderr, and closed with code; no cancel.
OneChunkTurn(raw, code) ==
  LET r1 == processChunk(raw, FALSE, <<>>)
      t1 == onEvents(NewTurn, FALSE, now, r1.events)
      r2 == processChunk(<<>>, TRUE, r1.buffer)
      t2 == onEvents(t1, FALSE, now, r2.events)
  IN  AfterClose(t2, FALSE, code)

Closed(c) == pc[c] \in {"drain", "notice", "done"}

\* C1: however the stream a subprocess wrote is split into chunks, the
\* updates the turn produced are those the unsplit stream produces: the same
\* kinds and payloads in the same order.
C1_ChunkingChangesNothing ==
  \A c \in PromptCalls :
    pc[c] = "drain" =>
      ChainUpdates(turn[c]) = ChainUpdates(OneChunkTurn(proc[c].rawStdout, exit[c]))

HasEsc(text) == \E i \in 1..Len(text) : text[i] \in EscChars

UpdateHasEsc(u) ==
  \/ HasEsc(u.text)
  \/ \E i \in 1..Len(u.content) : HasEsc(u.content[i])
  \/ \E i \in 1..Len(u.toolCall) : HasEsc(u.toolCall[i].rawInput)

\* C2: when the escape characters of a stream all begin escape sequences
\* (normalising the whole stream leaves none), no update of the turn holds an
\* escape character, wherever the chunks were split.
C2_SplitEscapeRemoved ==
  \A c \in PromptCalls :
    (Closed(c) /\ ~HasEsc(stripAnsi(proc[c].rawStdout))) =>
      \A i \in 1..Len(turn[c].sendChain) : ~UpdateHasEsc(turn[c].sendChain[i].update)

(***************************************************************************)
(* SpecModes: sessions are created and their mode is switched, for every   *)
(* environment override, host default and scraped agent list.              *)
(***************************************************************************)
\* What "agent list" may have printed: the entries, and the starred one.
AgentLists ==
  { <<>>,
    <<[id |-> "default", description |-> None]>>,
    <<[id |-> "dev", description |-> None]>>,
    <<[id |-> "default", description |-> None],
      [id |-> "dev", description |-> "x"]>> }

Starred(agents) == {None} \cup {agents[i].id : i \in 1..Len(agents)}

\* Lines 433-520: the session is stored under a fresh id.
NewSession(s, agents, defaultAgent) ==
  /\ s \notin DOMAIN sessions
  /\ defaultAgent \in Starred(agents)
  /\ sessions' = [x \in DOMAIN sessions \cup {s} |->
                    IF x = s
                    THEN NewSessionRecord(agents, defaultAgent, envAgent, zedDefault)
                    ELSE sessions[x]]
  /\ UNCHANGED <<zedDefault, envAgent, now, pc, call, turn, proc, exit,
                 result, modeCall, syncs, mk, client, thrown, returned>>

InitModes ==
  /\ client = "switching"
  /\ zedDefault \in {None, "default", "dev", "zzz"}
  /\ envAgent \in {None, "default", "dev"}
  /\ sessions = [s \in {} |-> None]
  /\ InitCalls

NextModes ==
  \/ \E s \in SessionIds, agents \in AgentLists, defaultAgent \in ModeIds \cup {None} :
       NewSession(s, agents, defaultAgent)
  \/ \E m \in ModeCalls, s \in SessionIds, modeId \in RequestedModes :
       SetSessionMode(m, s, modeId)
  \/ \E m \in ModeCalls, ok \in BOOLEAN : ModeNotifyDone(m, ok)
  \/ \E task \in syncs, ok \in BOOLEAN : ModeSyncDone(task, ok)

SpecModes == InitModes /\ [][NextModes]_vars

\* C10: the available modes of every session include its current mode.
C10_CurrentModeAvailable ==
  \A s \in DOMAIN sessions :
    HasMode(sessions[s].modes.availableModes, sessions[s].modes.currentModeId)

(***************************************************************************)
(* SpecIds: two sessions have a turn each while the clock goes on (C11).   *)
(***************************************************************************)
MaxNow == 1

IdSessions == {"s1", "s2"}

\* The session each prompt call is for.
SessionOf == [p1 |-> "s1", p2 |-> "s2"]

\* Date.now() has advanced by a millisecond.
Tick ==
  /\ now < MaxNow
  /\ now' = now + 1
  /\ UNCHANGED <<sessions, zedDefault, envAgent, pc, call, turn, proc, exit,
                 result, modeCall, syncs, mk, client, thrown, returned>>

InitIds ==
  /\ client = "overlapping"
  /\ zedDefault = None
  /\ envAgent = None
  /\ sessions = [s \in IdSessions |->
                   NewSessionRecord(ListedAgents, "default", envAgent, zedDefault)]
  /\ InitCalls

NextIds ==
  \/ \E c \in PromptCalls : Prompt(c, SessionOf[c])
  \/ \E c \in PromptCalls, answer \in ReadyAnswers : PreflightDone(c, answer)
  \/ \E c \in PromptCalls : FinishFail(c)
  \/ \E c \in PromptCalls, script \in Scripts[client] : Launch(c, script, <<>>)
  \/ \E c \in PromptCalls, n \in 1..2 : StdoutData(c, n)
  \/ \E c \in PromptCalls, code \in ExitCodes : Close(c, code)
  \/ \E c \in PromptCalls : Finish(c)
  \/ \E c \in PromptCalls : FinishNotice(c)
  \/ \E c \in PromptCalls, ok \in BOOLEAN : DeliverEnd(c, ok)
  \/ Tick

SpecIds == InitIds /\ [][NextIds]_vars

\* The tool calls opened: the call, and the place in its log, of every
\* tool_call update.
Opened ==
  UNION {{<<c, i>> : i \in {j \in 1..Len(turn[c].log) :
                             turn[c].log[j].sessionUpdate = "tool_call"}} :
           c \in PromptCalls}

\* C11: any two tool calls opened have different toolCallIds.
C11_ToolCallIdsDiffer ==
  \A a, b \in Opened :
    a # b => turn[a[1]].log[a[2]].toolCallId # turn[b[1]].log[b[2]].toolCallId

(***************************************************************************)
(* Tool calls (C3, C4).                                                    *)
(***************************************************************************)
IsTerminal(u) ==
  u.sessionUpdate = "tool_call_update" /\ u.status \in {"completed", "failed"}

\* How many of updates are terminal updates of the tool call id.
Terminals(updates, id) ==
  Cardinality({i \in 1..Len(updates) :
                 IsTerminal(updates[i]) /\ updates[i].toolCallId = id})

\* The ids of the tool calls the chain announces.
Announced(t) ==
  {t.sendChain[i].update.toolCallId :
     i \in {j \in 1..Len(t.sendChain) :
              t.sendChain[j].update.sessionUpdate = "tool_call"}}

\* C3 as claimed: when prompt has returned, every tool call the turn
\* announced has exactly one terminal update in the chain, cancel or not.
C3_ExactlyOneTerminal ==
  \A c \in PromptCalls :
    pc[c] = "done" =>
      \A id \in Announced(turn[c]) : Terminals(ChainUpdates(turn[c]), id) = 1

\* C3 amended: a tool call the turn announced never has two terminal updates,
\* and when prompt has returned it has ended exactly once: its one terminal
\* update is in the chain, or sendUpdate dropped it because the session was
\* cancelled at that moment.
C3_OneTerminalUnlessCancelled ==
  \A c \in PromptCalls :
    \A id \in Announced(turn[c]) :
      /\ Terminals(ChainUpdates(turn[c]), id) <= 1
      /\ pc[c] = "done" =>
           Terminals(ChainUpdates(turn[c]), id) + Terminals(turn[c].dropped, id) = 1

\* A returned turn with two announced tool calls, one with its terminal
\* update delivered and one whose terminal update a cancel dropped.
C3_Witness ==
  \E c \in PromptCalls :
    /\ pc[c] = "done"
    /\ \E id1, id2 \in Announced(turn[c]) :
         /\ Terminals(ChainUpdates(turn[c]), id1) = 1
         /\ Terminals(ChainUpdates(turn[c]), id2) = 0
         /\ Terminals(turn[c].dropped, id2) = 1

\* C4: in a chain, no update for a tool call follows a terminal update of
\* that tool call.
C4_NothingAfterTerminal ==
  \A c \in PromptCalls :
    \A i, j \in 1..Len(turn[c].sendChain) :
      (i < j /\ IsTerminal(turn[c].sendChain[i].update)) =>
        turn[c].sendChain[j].update.toolCallId
          # turn[c].sendChain[i].update.toolCallId

\* A chain in which a terminal update of one tool call is followed by the
\* announcement of the next one.
C4_Witness ==
  \E c \in PromptCalls :
    \E i, j \in 1..Len(turn[c].sendChain) :
      /\ i < j
      /\ IsTerminal(turn[c].sendChain[i].update)
      /\ turn[c].sendChain[j].update.sessionUpdate = "tool_call"

(***************************************************************************)
(* Cancellation and the chain (C5 - C8).                                   *)
(***************************************************************************)
InFlight(t) == {i \in 1..Len(t.sendChain) : t.sendChain[i].st = "inflight"}

Started(e) == e.st # "queued"

\* C5 as claimed: while the session of a turn is cancelled, client.sessionUpdate
\* is not invoked for the turn: no update of its chain goes into flight.
C5_NoDeliveryAfterCancel ==
  [][\A c \in PromptCalls :
       (call[c].sessionId # None /\ Cancelled(c)) =>
         InFlight(turn'[c]) \subseteq InFlight(turn[c])]_vars

\* C5 amended: while the session of a turn is cancelled, nothing is added to
\* the chain of the turn; what was chained before still drains.
C5_NoEnqueueWhileCancelled ==
  [][\A c \in PromptCalls :
       (call[c].sessionId # None /\ Cancelled(c) /\ Cancelled(c)') =>
         ChainUpdates(turn'[c]) = ChainUpdates(turn[c])]_vars

\* A cancelled session whose subprocess is alive with output to come, while
\* the turn dropped an update and holds a chained update not yet delivered.
C5_Witness ==
  \E c \in PromptCalls :
    /\ pc[c] = "running"
    /\ Cancelled(c)
    /\ Len(turn[c].dropped) > 0
    /\ \E i \in 1..Len(turn[c].sendChain) : ~Settled(turn[c].sendChain[i])

\* The deliveries for session s that are in flight: those of the chains of
\* its prompt calls and the notification a setSessionMode call awaits.
SessionInFlight(s) ==
  UNION {{<<c, i>> : i \in InFlight(turn[c])} :
           c \in {d \in PromptCalls : call[d].sessionId = s}}

ModeInFlight(s) ==
  {m \in ModeCalls : modeCall[m].sessionId = s /\ modeCall[m].pc = "notify"}

\* C6 as claimed: of the deliveries for one session, never two are in flight.
C6_OneInFlightPerSession ==
  \A s \in SessionIds :
    Cardinality(SessionInFlight(s)) + Cardinality(ModeInFlight(s)) <= 1

\* C6 amended: within the chain of one prompt call the deliveries start in
\* the order of the chain, each after all before it settled, so never two of
\* one chain are in flight.
C6_OneInFlightPerTurn ==
  \A c \in PromptCalls :
    /\ Cardinality(InFlight(turn[c])) <= 1
    /\ \A i, j \in 1..Len(turn[c].sendChain) :
         (i < j /\ Started(turn[c].sendChain[j])) => Settled(turn[c].sendChain[i])

\* A chain with a settled update, one in flight and one waiting behind it.
C6_Witness ==
  \E c \in PromptCalls :
    \E i \in 2..(Len(turn[c].sendChain) - 1) :
      /\ Settled(turn[c].sendChain[i - 1])
      /\ turn[c].sendChain[i].st = "inflight"
      /\ turn[c].sendChain[i + 1].st = "queued"

\* C7: a failed delivery stops nothing: the update chained behind it is
\* attempted as soon as it is there, and prompt does not reject.
C7_FailureSwallowed ==
  \A c \in PromptCalls :
    \A i \in 1..Len(turn[c].sendChain) :
      turn[c].sendChain[i].st = "failed" =>
        /\ i < Len(turn[c].sendChain) => Started(turn[c].sendChain[i + 1])
        /\ result[c] # "error"
        /\ pc[c] = "done" =>
             \A j \in 1..Len(turn[c].sendChain) : Settled(turn[c].sendChain[j])

\* A returned turn whose stop reason is end_turn, with a failed delivery and
\* a successful one behind it.
C7_Witness ==
  \E c \in PromptCalls :
    /\ result[c] = "end_turn"
    /\ \E i \in 1..(Len(turn[c].sendChain) - 1) :
         /\ turn[c].sendChain[i].st = "failed"
         /\ turn[c].sendChain[i + 1].st = "ok"

\* Whether the call spawned its subprocess.
Launched(c) == proc[c].alive \/ exit[c] # None

\* C8: a prompt call that launched the subprocess has not returned while the
\* subprocess is alive or an update of its chain is not settled.
C8_ReturnsAfterCloseAndDrain ==
  \A c \in PromptCalls :
    (Launched(c) /\ result[c] # None) =>
      /\ ~proc[c].alive
      /\ exit[c] # None
      /\ \A i \in 1..Len(turn[c].sendChain) : Settled(turn[c].sendChain[i])

\* A call whose subprocess was signalled by cancel and that returned
\* cancelled, with updates in its chain.
C8_Witness ==
  \E c \in PromptCalls :
    /\ result[c] = "cancelled"
    /\ proc[c].signalled
    /\ Len(turn[c].sendChain) > 0

\* C9: a session has at most one live chat subprocess.
C9_OneLiveSubprocess ==
  \A s \in SessionIds :
    Cardinality({c \in PromptCalls : call[c].sessionId = s /\ proc[c].alive}) <= 1

(***************************************************************************)
(* The marker-based runKiroChat (part_000, lines 833-979): stdout is held  *)
(* back by a carry window, normalised, and forwarded from the prompt       *)
(* marker "> " on; before the marker only allow-listed lines pass.         *)
(***************************************************************************)
CARRY_BYTES == 64

\* String.prototype.slice(from, to) with 0-based bounds.
Slice(str, from, to) == SubSeq(str, from + 1, Min(to, Len(str)))

\* String.prototype.split(/\r?\n/)
\* i is the position read, start the position where the piece being read began.
RECURSIVE SplitLFFrom(_, _, _)
SplitLFFrom(str, i, start) ==
  IF i > Len(str) THEN <<SubSeq(str, start, i - 1)>>
  ELSE IF str[i] = "CR" /\ i < Len(str) /\ str[i + 1] = "LF"
       THEN <<SubSeq(str, start, i - 1)>> \o SplitLFFrom(str, i + 2, i + 2)
  ELSE IF str[i] = "LF"
       THEN <<SubSeq(str, start, i - 1)>> \o SplitLFFrom(str, i + 1, i + 1)
  ELSE SplitLFFrom(str, i + 1, start)

SplitLF(str) == SplitLFFrom(str, 1, 1)

RECURSIVE trimStart(_)
trimStart(str) ==
  IF Len(str) > 0 /\ Head(str) \in Blank THEN trimStart(Tail(str)) ELSE str

trim(str) == trimStart(trimEnd(str))

\* Lines 867-878.
shouldEmitPreludeLine(line) ==
  LET trimmed == trim(line)
  IN  /\ Len(trimmed) > 0
      /\ \/ trimmed[1] = "R"
         \/ trimmed[1] = "D"
         \/ \E i \in 1..Len(trimmed) : trimmed[i] = "W"

\* The chunk events of the lines among lines that pass the allow-list.
RECURSIVE PreludeEvents(_)
PreludeEvents(lines) ==
  IF Len(lines) = 0 THEN <<>>
  ELSE LET line == Head(lines)
           text == trimEnd(line)
       IN  (IF shouldEmitPreludeLine(line) /\ Len(text) > 0
            THEN <<Append(text, "LF")>> ELSE <<>>)
           \o PreludeEvents(Tail(lines))

\* The 0-based index of the last "\n" of str, -1 when there is none.
RECURSIVE lastIndexOfLF(_)
lastIndexOfLF(str) ==
  IF Len(str) = 0 THEN -1
  ELSE IF Last(str) = "LF" THEN Len(str) - 1
  ELSE lastIndexOfLF(Front(str))

\* Where in cleanStdout the lines of PreludeEvents come from: str is the chunk
\* emitPreludeLines splits, base the index of its first character, i the
\* position read and start the position where the line being read began.
RECURSIVE PreludeRanges(_, _, _, _)
PreludeRanges(str, base, i, start) ==
  LET line == SubSeq(str, start, i - 1)
      here == IF shouldEmitPreludeLine(line) /\ Len(trimEnd(line)) > 0
              THEN <<[from |-> base + start - 1,
                      to |-> base + start - 1 + Len(trimEnd(line))]>>
              ELSE <<>>
  IN  IF i > Len(str) THEN here
      ELSE IF str[i] = "CR" /\ i < Len(str) /\ str[i + 1] = "LF"
           THEN here \o PreludeRanges(str, base, i + 2, i + 2)
      ELSE IF str[i] = "LF" THEN here \o PreludeRanges(str, base, i + 1, i + 1)
      ELSE PreludeRanges(str, base, i + 1, start)

\* Lines 880-894.
emitPreludeLines(m, limit, flush) ==
  IF limit <= m.preludeIndex THEN m
  ELSE LET slice == Slice(m.cleanStdout, m.preludeIndex, limit)
           end == IF flush THEN Len(slice) ELSE lastIndexOfLF(slice) + 1
       IN  IF end <= 0 THEN m
           ELSE [m EXCEPT !.preludeIndex = @ + end,
                          !.events = @ \o PreludeEvents(SplitLF(Slice(slice, 0, end))),
                          !.emitted = @ \o PreludeRanges(Slice(slice, 0, end),
                                                         m.preludeIndex, 1, 1)]

\* Lines 910-916: where the prompt marker begins, -1 when it is not there.
RECURSIVE IndexOfMarker(_, _)
IndexOfMarker(str, i) ==
  IF i + 2 > Len(str) THEN -1
  ELSE IF str[i] = "LF" /\ str[i + 1] = ">" /\ str[i + 2] = " " THEN i - 1
  ELSE IndexOfMarker(str, i + 1)

MarkerPos(str) ==
  IF Len(str) >= 2 /\ str[1] = ">" /\ str[2] = " " THEN 0
  ELSE LET idx == IndexOfMarker(str, 1)
       IN  IF idx # -1 THEN idx + 1 ELSE -1

\* How much of the carry a call normalises (lines 900-902).
ProcessUpto(rawCarry, isFinal) ==
  IF isFinal THEN Len(rawCarry) ELSE Max(0, Len(rawCarry) - CARRY_BYTES)

\* Lines 909-925: until the marker is seen, the prelude lines before it are
\* emitted, and seeing the marker turns emitting on.
findMarker(m, isFinal) ==
  LET markerPos == MarkerPos(m.cleanStdout)
      preludeLimit == IF markerPos = -1 THEN Len(m.cleanStdout) ELSE markerPos
      m2 == emitPreludeLines(m, preludeLimit, isFinal \/ markerPos # -1)
  IN  IF m.emitting THEN m
      ELSE IF markerPos # -1
           THEN [m2 EXCEPT !.emitting = TRUE, !.emitCleanIndex = markerPos + 2]
      ELSE m2

\* Lines 927-931: once emitting, what cleanStdout gained is one chunk event.
emitNext(m) ==
  LET next == Slice(m.cleanStdout, m.emitCleanIndex, Len(m.cleanStdout))
  IN  IF ~m.emitting THEN m
      ELSE [m EXCEPT !.emitCleanIndex = Len(m.cleanStdout),
                     !.events = IF Len(next) > 0 THEN Append(@, next) ELSE @,
                     !.emitted = IF Len(next) > 0
                                 THEN Append(@, [from |-> m.emitCleanIndex,
                                                 to |-> Len(m.cleanStdout)])
                                 ELSE @]

\* Lines 896-932. Each step of the function works on the value the step
\* before it left, which the one-element sets bind.
processStdout(m, rawChunk, isFinal) ==
  LET carry == m.rawCarry \o rawChunk
      processUpto == ProcessUpto(carry, isFinal)
      rawToProcess == Slice(carry, 0, processUpto)
      m1 == [m EXCEPT !.rawStdout = @ \o rawChunk,
                      !.rawCarry = Slice(carry, processUpto, Len(carry))]
  IN  IF Len(rawToProcess) = 0 THEN m1
      ELSE CHOOSE m4 \in
             { emitNext(m3) : m3 \in
               { findMarker(m2, isFinal) : m2 \in
                 { [m1 EXCEPT !.cleanStdout = @ \o stripAnsi(rawToProcess)] } } } :
             TRUE

\* Lines 966-969: when the marker never came, all of cleanStdout is emitted.
emitCleaned(m) ==
  LET cleaned == trimEnd(m.cleanStdout)
      some == ~m.emitting /\ Len(trim(cleaned)) > 0
  IN  [m EXCEPT !.closed = TRUE,
                !.events = IF some THEN Append(@, cleaned) ELSE @,
                !.emitted = IF some
                            THEN Append(@, [from |-> 0, to |-> Len(cleaned)])
                            ELSE @]

\* Lines 962-971, the close handler (stderr left aside).
closeMarker(m) ==
  CHOOSE m2 \in { emitCleaned(m1) : m1 \in {processStdout(m, <<>>, TRUE)} } : TRUE

\* Lines 935-937: a stdout data event carrying the next n characters.
MarkerData(n) ==
  /\ ~mk.closed
  /\ n \in 1..Len(mk.input)
  /\ mk' = [processStdout(mk, SubSeq(mk.input, 1, n), FALSE)
              EXCEPT !.input = SubSeq(mk.input, n + 1, Len(mk.input))]
  /\ UNCHANGED <<sessions, zedDefault, envAgent, now, pc, call, turn, proc,
                 exit, result, modeCall, syncs, client,
                 thrown, returned>>

MarkerClose ==
  /\ ~mk.closed
  /\ mk' = closeMarker(mk)
  /\ UNCHANGED <<sessions, zedDefault, envAgent, now, pc, call, turn, proc,
                 exit, result, modeCall, syncs, client,
                 thrown, returned>>

\* n copies of ch.
Rep(ch, n) == [i \in 1..n |-> ch]

\* Streams long enough for the carry window to let text through: a prelude
\* line or none, the marker, an escape sequence, and padding.
MarkerStreams ==
  { prelude \o <<">", " ">> \o Rep("x", a) \o <<"ESC", "[", "3", "m">>
      \o Rep("x", CARRY_BYTES - b) :
      prelude \in {<<>>, <<"D", "LF">>, <<"x", "LF">>}, a \in 0..1, b \in 0..3 }
  \cup { <<"D", "LF", "x", "LF">> \o Rep("x", CARRY_BYTES) }

InitMarker ==
  /\ client = "sequential"
  /\ zedDefault = None
  /\ envAgent = None
  /\ sessions = [s \in SessionIds |->
                   NewSessionRecord(ListedAgents, "default", envAgent, zedDefault)]
  /\ now = 0
  /\ pc = [c \in PromptCalls |-> "idle"]
  /\ call = [c \in PromptCalls |-> IdleCall]
  /\ turn = [c \in PromptCalls |-> NewTurn]
  /\ proc = [c \in PromptCalls |-> NoProc]
  /\ exit = [c \in PromptCalls |-> None]
  /\ result = [c \in PromptCalls |-> None]
  /\ modeCall = [m \in ModeCalls |-> IdleModeCall]
  /\ syncs = {}
  /\ thrown = [k \in Calls |-> <<>>]
  /\ returned = {}
  /\ \E stream \in MarkerStreams :
       mk = [NoMarker EXCEPT !.input = stream, !.closed = FALSE]

\* Sizes of the pieces stdout arrives in: single characters, and pieces as
\* long as the carry window and longer.
ChunkSizes == {1, 2, CARRY_BYTES, 2 * CARRY_BYTES}

NextMarker ==
  \/ \E n \in ChunkSizes : MarkerData(n)
  \/ MarkerClose

SpecMarker == InitMarker /\ [][NextMarker]_vars

\* No two chunk events hold the same part of the normalized stdout.
NoOverlap ==
  \A i, j \in 1..Len(mk.emitted) :
    i < j => \/ mk.emitted[i].to <= mk.emitted[j].from
             \/ mk.emitted[j].to <= mk.emitted[i].from

CursorsGrow ==
  /\ mk'.preludeIndex >= mk.preludeIndex
  /\ mk'.emitCleanIndex >= mk.emitCleanIndex

\* C12: the cursors of the marker-based strategy never decrease, and no part
\* of the normalized stdout is emitted in two chunk events.
C12_NothingEmittedTwice == []NoOverlap /\ [][CursorsGrow]_vars

EventsHaveEsc(events) == \E i \in 1..Len(events) : HasEsc(events[i])

\* The marker pipeline's half of C2: when the whole stream normalises to text
\* without an escape character, no forwarded event has one.
MarkerEscapeRemoved ==
  (mk.closed /\ Len(mk.rawStdout) > 0 /\ ~HasEsc(stripAnsi(mk.rawStdout)))
    => ~EventsHaveEsc(mk.events)

(***************************************************************************)
(* The exit code of the subprocess (lines 733-749).                        *)
(***************************************************************************)
Has(seq, x) == \E i \in 1..Len(seq) : seq[i] = x

\* The step in which await sendChain resumes in a call whose subprocess
\* exited with a code other than 0 (or with none) while the session is not
\* cancelled.
ResumesAfterFailure(c) ==
  /\ pc[c] = "drain"
  /\ pc'[c] # "drain"
  /\ exit[c] # "0"
  /\ ~sessions[call[c].sessionId].cancelled

\* C13: when the subprocess exits with a code other than 0, or with none,
\* the turn is not cancelled and the turn sent no update, prompt raises an
\* internal error whose message holds the exit code ("?" for none) and sends
\* no update.
C13_RaisesWithExitCode ==
  [][\A c \in PromptCalls :
       ResumesAfterFailure(c) /\ Len(turn[c].sendChain) = 0
         => /\ pc'[c] = "done"
            /\ result'[c] = "error"
            /\ Has(thrown'[c], CodeText(exit[c]))
            /\ turn'[c] = turn[c]]_vars

C13_Witness ==
  \E c \in PromptCalls :
    /\ pc[c] = "done"
    /\ result[c] = "error"
    /\ exit[c] = "2"
    /\ turn[c].log = <<>>

IsNotice(update, code) ==
  /\ update.sessionUpdate = "agent_message_chunk"
  /\ Has(update.text, CodeText(code))

\* C14: when the subprocess exits with a code other than 0 after the turn
\* sent an update and the turn is not cancelled, a text naming the exit code
\* is enqueued after every other update of the turn, and prompt returns
\* end_turn and raises nothing.
C14_NoticeIsLast ==
  /\ [][\A c \in PromptCalls :
          ResumesAfterFailure(c) /\ Len(turn[c].sendChain) > 0
            => /\ pc'[c] = "notice"
               /\ Len(turn'[c].sendChain) = Len(turn[c].sendChain) + 1
               /\ IsNotice(Last(turn'[c].sendChain).update, exit[c])]_vars
  /\ [](\A c \in PromptCalls :
          pc[c] = "notice" \/ (pc[c] = "done" /\ exit[c] \notin {None, "0"}
                                            /\ result[c] = "end_turn")
            => /\ IsNotice(Last(turn[c].sendChain).update, exit[c])
               /\ thrown[c] = <<>>)
  /\ [][\A c \in PromptCalls :
          pc[c] = "notice" /\ pc'[c] # "notice"
            => pc'[c] = "done" /\ result'[c] = "end_turn"]_vars

C14_Witness ==
  \E c \in PromptCalls :
    /\ pc[c] = "done"
    /\ result[c] = "end_turn"
    /\ exit[c] = "2"
    /\ Len(turn[c].sendChain) > 1
    /\ Last(turn[c].sendChain).update.text = <<"LF", "(kiro-cli exit code:", "2", ")", "LF">>

(***************************************************************************)
(* The capability check (lines 679-685).                                   *)
(***************************************************************************)
\* The step in which ensureKiroReady answers that Kiro is not ready.
CheckFails(c) == pc[c] = "preflight" /\ pc'[c] = "faildrain"

\* The turn of c ended, or is ending, on a failed capability check.
EndsOnFailedCheck(c) ==
  pc[c] = "faildrain" \/ (pc[c] = "done" /\ exit[c] = None)

IsText(update) == update.sessionUpdate = "agent_message_chunk"

\* A prompt runs the capability check only while preflightOk is not set.
CheckedOnlyUntilOk ==
  [][\A c \in PromptCalls :
       pc[c] # "preflight" /\ pc'[c] = "preflight"
         => ~sessions[call'[c].sessionId].preflightOk]_vars

\* A failed check changes nothing of the session and makes one text.
FailedCheckLeavesSession ==
  [][\A c \in PromptCalls :
       CheckFails(c)
         => /\ sessions' = sessions
            /\ Len(turn'[c].log) = 1
            /\ IsText(turn'[c].log[1])]_vars

NoSubprocessAfterFailedCheck ==
  \A c \in PromptCalls :
    EndsOnFailedCheck(c)
      => /\ ~proc[c].alive
         /\ exit[c] = None
         /\ pc[c] = "done" => result[c] = "end_turn" /\ thrown[c] = <<>>

\* C15 as stated: the turn of a failed check emits exactly one text (and the
\* check runs once per session, launches nothing, returns end_turn, leaves
\* preflightOk alone).
C15_OneTextOnFailedCheck ==
  /\ CheckedOnlyUntilOk
  /\ FailedCheckLeavesSession
  /\ [](NoSubprocessAfterFailedCheck
        /\ \A c \in PromptCalls :
             EndsOnFailedCheck(c) => Len(turn[c].sendChain) = 1)

\* C15: a prompt runs the capability check only while the session's
\* preflightOk is not set.  A failed check leaves preflightOk as it was,
\* launches no subprocess and the turn returns end_turn; the turn emits one
\* explanatory text, or none when the session was cancelled while the check
\* ran (the text is then dropped), and nothing else.
C15_OneTextUnlessCancelled ==
  /\ CheckedOnlyUntilOk
  /\ FailedCheckLeavesSession
  /\ [](NoSubprocessAfterFailedCheck
        /\ \A c \in PromptCalls :
             EndsOnFailedCheck(c)
               => /\ Len(turn[c].sendChain) + Len(turn[c].dropped) = 1
                  /\ Len(turn[c].log) = 1)
  /\ [][\A c \in PromptCalls :
          CheckFails(c)
            => Len(turn'[c].dropped) =
                 IF sessions[call[c].sessionId].cancelled THEN 1 ELSE 0]_vars

C15_Witness ==
  \E c \in PromptCalls :
    /\ pc[c] = "done"
    /\ exit[c] = None
    /\ result[c] = "end_turn"
    /\ Len(turn[c].sendChain) = 1
    /\ IsText(turn[c].sendChain[1].update)
    /\ ~sessions[call[c].sessionId].preflightOk

(***************************************************************************)
(* The resume flag (lines 530, 692 and 748).                               *)
(***************************************************************************)
\* The step in which runKiroChat spawns the subprocess of c.
Spawns(c) == ~Launched(c) /\ proc'[c].alive

\* The step in which a prompt call begins.
Begins(c) == pc[c] \in {"idle", "done"} /\ pc'[c] \notin {"idle", "done"}

\* C16 as stated: the subprocess gets the resume flag iff a prompt call of
\* the session has run its subprocess to exit and returned.
C16_ResumeIffPriorTurnReturned ==
  [][\A c \in PromptCalls :
       Spawns(c)
         => (proc'[c].resume <=>
               \E r \in returned : r[1] = call[c].sessionId)]_vars

\* C16: the subprocess of a turn gets the resume flag iff, when its prompt
\* call began, a prompt call of the session had run its subprocess to exit
\* and returned end_turn; turns that returned cancelled or raised do not
\* count, and the first turn of a session is launched without the flag.
C16_ResumeIffPriorEndTurn ==
  /\ [][\A c \in PromptCalls :
          Begins(c)
            => (call'[c].resume <=>
                  <<call'[c].sessionId, "end_turn">> \in returned)]_vars
  /\ [][\A c \in PromptCalls :
          ~Begins(c) /\ pc'[c] \notin {"idle", "done"}
            => call'[c].resume = call[c].resume]_vars
  /\ [][\A c \in PromptCalls :
          Spawns(c) => proc'[c].resume = call[c].resume]_vars
  /\ [](returned = {}
          => \A c \in PromptCalls : proc[c].alive => ~proc[c].resume)

C16_Witness ==
  \E c \in PromptCalls :
    /\ proc[c].alive
    /\ proc[c].resume
    /\ <<call[c].sessionId, "end_turn">> \in returned

(***************************************************************************)
(* cancel (lines 752-757).                                                 *)
(***************************************************************************)
\* The session is as a cancel leaves it: flagged, its subprocess signalled.
AsCancelLeaves(s) ==
  /\ sessions[s].cancelled
  /\ sessions[s].child # None => proc[sessions[s].child].signalled

\* C17: cancel of a session of the registry sets its cancelled flag, signals
\* its live subprocess if it has one and raises nothing; a cancel of a
\* session that a cancel just left changes nothing.
C17_CancelIdempotent ==
  [][\A k \in CancelCalls, s \in SessionIds :
       Cancel(k, s)
         => /\ sessions'[s].cancelled
            /\ sessions'[s].child = sessions[s].child
            /\ \A c \in PromptCalls :
                 proc'[c] = IF sessions[s].child = c
                            THEN [proc[c] EXCEPT !.signalled = TRUE]
                            ELSE proc[c]
            /\ thrown'[k] = <<>>
            /\ AsCancelLeaves(s) => UNCHANGED vars]_vars

C17_Witness ==
  \E s \in SessionIds :
    /\ sessions[s].cancelled
    /\ sessions[s].child # None
    /\ proc[sessions[s].child].alive
    /\ proc[sessions[s].child].signalled
    /\ thrown["k1"] = <<>>

(***************************************************************************)
(* setSessionMode with a mode the session does not offer (line 768).       *)
(***************************************************************************)
Offers(s, modeId) ==
  LET modes == sessions[s].modes.availableModes
  IN  modeId \in {modes[i].id : i \in 1..Len(modes)}

\* The step in which a setSessionMode call begins.
ModeCallBegins(m) == modeCall[m].pc = "idle" /\ modeCall'[m].pc # "idle"

\* C18: setSessionMode with a mode id that is not among the session's
\* availableModes raises an error and changes nothing of the session; it
\* sends no current_mode_update and starts no synchronization.
C18_InvalidModeRejected ==
  /\ [][\A m \in ModeCalls :
          ModeCallBegins(m)
          /\ ~Offers(modeCall'[m].sessionId, modeCall'[m].modeId)
            => /\ modeCall'[m].pc = "rejected"
               /\ thrown'[m] = InvalidMode
               /\ sessions' = sessions
               /\ syncs' = syncs]_vars
  /\ [](\A m \in ModeCalls :
          modeCall[m].pc \in {"notify", "done"}
            => Offers(modeCall[m].sessionId, modeCall[m].modeId))
  /\ [](\A task \in syncs : Offers(task.sessionId, modeCall[task.by].modeId))

C18_Witness ==
  \E m \in ModeCalls :
    /\ modeCall[m].pc = "rejected"
    /\ thrown[m] = InvalidMode
    /\ ~Offers(modeCall[m].sessionId, modeCall[m].modeId)
    /\ sessions[modeCall[m].sessionId].modes.currentModeId = modeCall[m].before
    /\ syncs = {}

(***************************************************************************)
(* Calls with a session id that is not in the registry.                    *)
(***************************************************************************)
\* The step is a call of one of the four handlers with an unknown id.
UnknownCall(x, s) ==
  \/ x \in PromptCalls /\ PromptUnknown(x, s)
  \/ x \in CancelCalls /\ CancelUnknown(x, s)
  \/ x \in ModeCalls /\ SetSessionModeUnknown(x, s)
  \/ x \in ModelCalls /\ SetSessionModelUnknown(x, s)

\* C19: prompt, cancel, setSessionMode and setSessionModel called with a
\* session id that is not in the registry raise an error, change no
\* session, enqueue no update, launch no subprocess and signal none.
C19_UnknownSessionRejected ==
  [][\A x \in Calls, s \in UnknownIds :
       UnknownCall(x, s)
         => /\ Has(thrown'[x], "Session not found")
            /\ UNCHANGED <<sessions, turn, proc, pc, call, exit, result,
                           modeCall, syncs, returned>>]_vars

C19_Witness ==
  /\ \A x \in {"p2", "k1", "m1", "n1"} : Has(thrown[x], "Session not found")
  /\ \E c \in PromptCalls : proc[c].alive /\ ~proc[c].signalled

(***************************************************************************)
(* A tool-start line while a tool call is open (lines 630-647).            *)
(***************************************************************************)
\* The tool-start lines a subprocess may write next.
StartLines == {<<"T">>, <<"U">>, <<"T", "x", "U", " ">>}

\* The subprocess of c can still write a line, and a tool call is open.
ToolOpen(c) == pc[c] = "running" /\ turn[c].activeTool # <<>>

IsCompletedOf(update, id) ==
  /\ update.sessionUpdate = "tool_call_update"
  /\ update.status = "completed"
  /\ update.toolCallId = id

IsCallOf(update, id) ==
  update.sessionUpdate = "tool_call" /\ update.toolCallId = id

\* seq is base followed by the completed update of old and the tool_call
\* of new, and nothing else.
ClosesThenOpens(seq, base, old, new) ==
  /\ Len(seq) = Len(base) + 2
  /\ SubSeq(seq, 1, Len(base)) = base
  /\ IsCompletedOf(seq[Len(base) + 1], old)
  /\ IsCallOf(seq[Len(base) + 2], new)

Updates(chain) == [i \in 1..Len(chain) |-> chain[i].update]

\* Every tool_call_update the turn made carries the id of the latest tool
\* call the turn opened before it.
AttributedToLatest(log) ==
  \A j \in 1..Len(log) :
    log[j].sessionUpdate = "tool_call_update"
      => \E i \in 1..(j - 1) :
           /\ log[i].sessionUpdate = "tool_call"
           /\ log[i].toolCallId = log[j].toolCallId
           /\ \A k \in (i + 1)..(j - 1) : log[k].sessionUpdate # "tool_call"

\* What handleLine makes of a tool-start line and of an output line after it.
AfterStart(c, line) == handleLine(turn[c], Cancelled(c), now, line)

AfterOutput(c, line) == handleLine(AfterStart(c, line), Cancelled(c), now, <<"x">>)

NewToolTakesOver(c, line) ==
  LET old == turn[c].activeTool[1].id
      t2 == AfterStart(c, line)
      t3 == AfterOutput(c, line)
  IN  /\ t2.activeTool # <<>>
      /\ t2.activeTool[1].id # old
      /\ t2.activeTool[1].output = <<>>
      /\ ClosesThenOpens(t2.log, turn[c].log, old, t2.activeTool[1].id)
      /\ Len(t3.log) = Len(t2.log) + 1
      /\ Last(t3.log).sessionUpdate = "tool_call_update"
      /\ Last(t3.log).toolCallId = t2.activeTool[1].id
      /\ Last(t3.log).content = <<<<"x">>>>

\* C20 as stated: a tool-start line classified while a tool call is open
\* enqueues the completed update of the open call and then the tool_call of
\* the new one, and later output lines go to the new call.
C20_ForceCloseEnqueued ==
  /\ \A c \in PromptCalls : AttributedToLatest(turn[c].log)
  /\ \A c \in PromptCalls, line \in StartLines :
       ToolOpen(c)
         => /\ NewToolTakesOver(c, line)
            /\ ClosesThenOpens(Updates(AfterStart(c, line).sendChain),
                               Updates(turn[c].sendChain),
                               turn[c].activeTool[1].id,
                               AfterStart(c, line).activeTool[1].id)

\* C20: a tool-start line classified while a tool call is open replaces the
\* open call by the new one; unless the session is cancelled it enqueues
\* the completed update of the old call and, right after it, the tool_call
\* of the new one, and while the session is cancelled both are dropped.
\* Every later output line is reported for the new call only.
C20_ForceCloseUnlessCancelled ==
  /\ \A c \in PromptCalls : AttributedToLatest(turn[c].log)
  /\ \A c \in PromptCalls, line \in StartLines :
       ToolOpen(c)
         => LET old == turn[c].activeTool[1].id
                t2 == AfterStart(c, line)
                new == t2.activeTool[1].id
            IN  /\ NewToolTakesOver(c, line)
                /\ IF sessions[call[c].sessionId].cancelled
                   THEN /\ t2.sendChain = turn[c].sendChain
                        /\ ClosesThenOpens(t2.dropped, turn[c].dropped, old, new)
                   ELSE /\ t2.dropped = turn[c].dropped
                        /\ ClosesThenOpens(Updates(t2.sendChain),
                                           Updates(turn[c].sendChain), old, new)

\* The turn closed a tool call for the start of the next one and reported an
\* output line of the next one.
C20_Witness ==
  \E c \in PromptCalls :
    LET chain == Updates(turn[c].sendChain)
    IN  /\ Len(chain) >= 4
        /\ \E i \in 1..(Len(chain) - 3) :
             /\ chain[i].sessionUpdate = "tool_call"
             /\ IsCompletedOf(chain[i + 1], chain[i].toolCallId)
             /\ chain[i + 2].sessionUpdate = "tool_call"
             /\ chain[i + 3].sessionUpdate = "tool_call_update"
             /\ chain[i + 3].toolCallId = chain[i + 2].toolCallId
             /\ chain[i + 3].content # <<>>

(***************************************************************************)
(* The output a tool update carries (lines 584-626, 649-658).              *)
(***************************************************************************)
\* The output lines classified for the call id by the time the turn made
\* its n-th update, in arrival order.
RECURSIVE LinesBy(_, _, _)
LinesBy(history, id, n) ==
  IF Len(history) = 0 THEN <<>>
  ELSE (IF Head(history).id = id /\ Head(history).at <= n
        THEN <<Head(history).line>> ELSE <<>>)
       \o LinesBy(Tail(history), id, n)

\* lines joined by newlines.
RECURSIVE Joined(_)
Joined(lines) ==
  IF Len(lines) = 1 THEN lines[1]
  ELSE lines[1] \o <<"LF">> \o Joined(Tail(lines))

\* C21: every tool_call_update, in progress or terminal, carries all output
\* lines classified for its call since the announcement, in arrival order
\* and joined by newlines (and no content when there was no line yet).
C21_UpdateCarriesAllOutput ==
  \A c \in PromptCalls :
    \A n \in 1..Len(turn[c].log) :
      LET update == turn[c].log[n]
          lines == LinesBy(turn[c].outputLines, update.toolCallId, n)
      IN  update.sessionUpdate = "tool_call_update"
            => update.content = IF Len(lines) = 0 THEN <<>>
                                ELSE <<Joined(lines)>>

C21_Witness ==
  \E c \in PromptCalls :
    \E n \in 1..Len(turn[c].sendChain) :
      /\ turn[c].sendChain[n].update.sessionUpdate = "tool_call_update"
      /\ turn[c].sendChain[n].update.status = "failed"
      /\ turn[c].sendChain[n].update.content = <<<<"x", "LF", "H">>>>

(***************************************************************************)
(* The exit of the subprocess (kiro.ts 84-88, agent.ts 724-733).           *)
(***************************************************************************)
\* The step in which the subprocess of c closes.
Closes(c) == pc[c] = "running" /\ pc'[c] = "drain"

\* The unterminated text the close leaves to classify: what prompt buffered
\* and what runKiroChat flushes.
PendingLine(c) ==
  turn[c].lineBuffer \o proc[c].stdoutBuffer \o proc[c].stderrBuffer

\* The turn once the pending line is classified.
PendingClassified(c) ==
  IF Len(PendingLine(c)) > 0
  THEN handleLine(turn[c], Cancelled(c), now, PendingLine(c))
  ELSE turn[c]

ExitStatus(code) == IF code = "0" THEN "completed" ELSE "failed"

\* seq is base, followed by one terminal update of the call open at the end
\* of base when there is one: completed for code 0, failed otherwise.
ClosedByExit(seq, base, activeTool, code) ==
  IF activeTool = <<>> THEN seq = base
  ELSE /\ Len(seq) = Len(base) + 1
       /\ Front(seq) = base
       /\ Last(seq).sessionUpdate = "tool_call_update"
       /\ Last(seq).toolCallId = activeTool[1].id
       /\ Last(seq).status = ExitStatus(code)

\* The pending line is classified, then the open call is closed, and
\* nothing stays buffered or open.
ExitClosesOpenCall(c) ==
  LET t1 == PendingClassified(c)
  IN  /\ ClosedByExit(turn'[c].log, t1.log, t1.activeTool, exit'[c])
      /\ turn'[c].activeTool = <<>>
      /\ turn'[c].lineBuffer = <<>>

\* C22 as stated: the terminal update of the call open at the exit is
\* enqueued, whatever the session's flag.
C22_ExitClosesWithTerminal ==
  [][\A c \in PromptCalls :
       Closes(c)
         => LET t1 == PendingClassified(c)
            IN  /\ ExitClosesOpenCall(c)
                /\ ClosedByExit(Updates(turn'[c].sendChain),
                                Updates(t1.sendChain), t1.activeTool,
                                exit'[c])]_vars

\* C22: when the subprocess exits, the buffered unterminated line is
\* classified first; then a tool call that is still open is closed by a
\* single terminal update, completed for exit code 0 and failed for any
\* other or a missing code.  The update is enqueued unless the session is
\* cancelled at that moment; then it is dropped.
C22_ExitClosesUnlessCancelled ==
  [][\A c \in PromptCalls :
       Closes(c)
         => LET t1 == PendingClassified(c)
            IN  /\ ExitClosesOpenCall(c)
                /\ IF sessions[call[c].sessionId].cancelled
                   THEN /\ Updates(turn'[c].sendChain) = Updates(turn[c].sendChain)
                        /\ ClosedByExit(turn'[c].dropped, t1.dropped,
                                        t1.activeTool, exit'[c])
                   ELSE /\ turn'[c].dropped = turn[c].dropped
                        /\ ClosedByExit(Updates(turn'[c].sendChain),
                                        Updates(t1.sendChain), t1.activeTool,
                                        exit'[c])]_vars

\* A turn whose subprocess exited with no code while a tool call opened by
\* the unterminated last line was open.
C22_Witness ==
  \E c \in PromptCalls :
    LET chain == Updates(turn[c].sendChain)
    IN  /\ exit[c] = "null"
        /\ proc[c].rawStdout = <<"T">>
        /\ Len(chain) = 2
        /\ chain[1].sessionUpdate = "tool_call"
        /\ chain[2].sessionUpdate = "tool_call_update"
        /\ chain[2].status = "failed"

(***************************************************************************)
(* The classifier (lines 561-570, 628-668).                                *)
(***************************************************************************)
\* Lines a subprocess may write: announcements (one with the words of a
\* completion in it), completions, reasoning, prose and an empty line.
TestLines ==
  { <<"T">>, <<"T", "D", "U">>, <<"D">>, <<"x", "D">>, <<"H">>, <<"H", "D">>,
    <<"x">>, <<"x", "H">>, <<>> }

\* The class of a line by the table: the announcement first, then the state.
ClassOf(line, open) ==
  IF toolStartRe(line) THEN "tool-start"
  ELSE IF open THEN (IF toolDoneRe(line) THEN "tool-done" ELSE "tool-output")
  ELSE IF StartsWithThought(line) THEN "thought"
  ELSE "prose"

\* The kind and status of the updates each class makes.
EventsOf(class, open) ==
  CASE class = "tool-start" ->
         (IF open THEN << <<"tool_call_update", "completed">> >> ELSE <<>>)
         \o << <<"tool_call", "in_progress">> >>
    [] class = "tool-done" -> << <<"tool_call_update", "completed">> >>
    [] class = "tool-output" -> << <<"tool_call_update", "in_progress">> >>
    [] class = "thought" -> << <<"agent_thought_chunk", None>> >>
    [] class = "prose" -> << <<"agent_message_chunk", None>> >>

KindsOf(seq) == [i \in 1..Len(seq) |-> <<seq[i].sessionUpdate, seq[i].status>>]

\* Whether a tool call is open after a line of the class.
OpenAfter(class, open) ==
  CASE class \in {"tool-start", "tool-output"} -> TRUE
    [] class = "tool-done" -> FALSE
    [] OTHER -> open

\* C23: the classifier decides a line from the line and from whether a tool
\* call is open: an announcement starts a tool call in either state; with a
\* call open a completion closes it and any other line, reasoning included,
\* is its output; with none open a reasoning line is a thought and any other
\* line prose.  A line makes the events of its class and no others.
C23_ClassifierTable ==
  \A c \in PromptCalls, line \in TestLines :
    pc[c] = "running"
      => LET t == turn[c]
             open == t.activeTool # <<>>
             class == ClassOf(line, open)
             t2 == handleLine(t, Cancelled(c), now, line)
             made == SubSeq(t2.log, Len(t.log) + 1, Len(t2.log))
         IN  /\ SubSeq(t2.log, 1, Len(t.log)) = t.log
             /\ KindsOf(made) = EventsOf(class, open)
             /\ (t2.activeTool # <<>>) = OpenAfter(class, open)
             /\ class \in {"thought", "prose"}
                  => Last(made).text = Append(line, "LF")
             /\ class \in {"tool-done", "tool-output"}
                  => Last(made).toolCallId = t.activeTool[1].id
             /\ class = "tool-output"
                  => /\ t2.activeTool[1].id = t.activeTool[1].id
                     /\ t2.activeTool[1].output = Append(t.activeTool[1].output, line)

\* A turn classified a reasoning line as output of the open tool call.
C23_Witness ==
  \E c \in PromptCalls :
    \E n \in 1..Len(turn[c].log) :
      /\ turn[c].log[n].sessionUpdate = "tool_call_update"
      /\ turn[c].log[n].status = "in_progress"
      /\ turn[c].log[n].content # <<>>
      /\ Last(turn[c].log[n].content[1]) = "H"

(***************************************************************************)
(* Synchronization of the default agent (lines 369-391).                   *)
(***************************************************************************)
\* The step starts a synchronization of session s for the mode desired.
SyncStarts(s, desired) ==
  \/ \E c \in PromptCalls :
       /\ pc[c] # "syncing"
       /\ pc'[c] = "syncing"
       /\ call'[c].sessionId = s
       /\ call'[c].desired = desired
  \/ \E task \in syncs' \ syncs :
       task.sessionId = s /\ task.desired = desired

\* C24: once a synchronization for a desired mode has failed in a session,
\* no synchronization for that mode is started in the session again.
C24_NoRetryAfterFailure ==
  [][\A s \in SessionIds, desired \in SettingsModes :
       SyncStarts(s, desired) => desired \notin sessions[s].failedSyncs]_vars

(***************************************************************************)
(* session.child (lines 715, 724).                                         *)
(***************************************************************************)
\* The prompt calls of session s whose subprocess was launched and has not
\* closed.
LiveCalls(s) ==
  {c \in PromptCalls : call[c].sessionId = s /\ proc[c].alive}

\* C25: session.child is unset whenever no prompt call of the session is
\* between launch and close, and refers to the subprocess of every call
\* that is.
C25_ChildIffLive ==
  \A s \in SessionIds :
    /\ LiveCalls(s) = {} => sessions[s].child = None
    /\ \A c \in LiveCalls(s) : sessions[s].child = c

(***************************************************************************)
(* The stop reason of a cancelled prompt (lines 526, 683-684, 735).        *)
(***************************************************************************)
\* The step is the one in which prompt call c returns or rejects.
Returns(c) == pc[c] # "done" /\ pc'[c] = "done"

\* cancel was called for the session of c after c cleared the flag (line
\* 526) and nothing cleared it since: only cancel sets the flag (line 755).
CancelPending(c) == pc[c] # "idle" /\ Cancelled(c)

\* C26: a prompt call that returns while the cancel received during it is
\* still recorded in the session returns the stop reason cancelled.
C26_CancelledPromptSaysCancelled ==
  [][\A c \in PromptCalls :
       Returns(c) /\ CancelPending(c) => result'[c] = "cancelled"]_vars

(***************************************************************************)
(* cancel before the chat subprocess is launched (lines 679-715, 752-757). *)
(***************************************************************************)
\* C27: every chat subprocess that is live while the cancelled flag of its
\* session is set has been sent the interrupt signal; so none is launched
\* after a cancel received during the capability check or the
\* synchronization of the same prompt call.
C27_LiveWhileCancelledIsSignalled ==
  \A c \in PromptCalls :
    proc[c].alive /\ Cancelled(c) => proc[c].signalled

(***************************************************************************)
(* The streams of the subprocess (kiro.ts 56-93; agent.ts 670-677, 725).   *)
(***************************************************************************)
\* The characters a subprocess writes to stderr; stdout holds none of them.
StderrChars == {"e"}

\* The line holds text of stderr and text of stdout.
Mixed(line) ==
  /\ \E i \in 1..Len(line) : line[i] \in StderrChars
  /\ \E i \in 1..Len(line) : line[i] \notin StderrChars \cup Blank

\* The lines an update reports: its text, the input of the tool call it
\* announces, and the output lines it carries.
ReportedLines(u) ==
  LET texts == {u.text}
                 \cup {u.content[i] : i \in 1..Len(u.content)}
                 \cup {u.toolCall[i].rawInput : i \in 1..Len(u.toolCall)}
  IN  UNION {{SplitLines(x)[i] : i \in 1..Len(SplitLines(x))} : x \in texts}

\* C28: no line the classifier was handed, as the updates made from it
\* report it, holds text of both stdout and stderr.
C28_LinesOfOneStream ==
  \A c \in PromptCalls :
    \A n \in 1..Len(turn[c].log) :
      \A line \in ReportedLines(turn[c].log[n]) : ~Mixed(line)

(***************************************************************************)
(* setSessionMode that rejects (lines 759-788).                            *)
(***************************************************************************)
\* The step is one in which setSessionMode call m rejects.
Rejects(m) == thrown'[m] # <<>> /\ thrown'[m] # thrown[m]

\* C29: when setSessionMode rejects, the current mode of the session is the
\* one it had when the call was made; a call for an unknown session changes
\* no session.
C29_RejectedModeChangesNothing ==
  [][\A m \in ModeCalls :
       Rejects(m)
         => IF modeCall'[m].pc = "rejected"
            THEN sessions'[modeCall'[m].sessionId].modes.currentModeId
                   = modeCall'[m].before
            ELSE sessions' = sessions]_vars

(***************************************************************************)
(* SpecLive: the turns of one session under the conditions of progress:    *)
(* the capability check and the synchronization subprocess finish, the     *)
(* chat subprocess closes, every delivery that was started settles, and    *)
(* the event loop runs the code that follows a settled await (lines 680,   *)
(* 683, 687, 717-722, 733, 745).  The client sends one prompt after the   *)
(* other, or one prompt and setSessionMode at any time; it cancels at any  *)
(* time and may fail a delivery.                                           *)
(***************************************************************************)
LiveClients == {"sequential", "switching"}

\* What the chat subprocess may write: an announcement that stays open.
LiveScripts == { <<"T", "LF">> }

InitLive ==
  /\ client \in LiveClients
  /\ zedDefault = "dev"
  /\ envAgent = None
  /\ sessions = [s \in SessionIds |->
                   NewSessionRecord(ListedAgents, "default", envAgent, zedDefault)]
  /\ InitCalls

NextLive ==
  \/ \E c \in PromptCalls, s \in SessionIds : Prompt(c, s)
  \/ \E c \in PromptCalls, answer \in ReadyAnswers : PreflightDone(c, answer)
  \/ \E c \in PromptCalls : FinishFail(c)
  \/ \E c \in PromptCalls, ok \in BOOLEAN : PromptSyncDone(c, ok)
  \/ \E c \in PromptCalls, script \in LiveScripts : Launch(c, script, <<>>)
  \/ \E c \in PromptCalls, n \in 1..2 : StdoutData(c, n)
  \/ \E c \in PromptCalls, code \in ExitCodes : Close(c, code)
  \/ \E c \in PromptCalls : Finish(c)
  \/ \E c \in PromptCalls : FinishNotice(c)
  \/ \E c \in PromptCalls, ok \in BOOLEAN : DeliverEnd(c, ok)
  \/ \E k \in CancelCalls, s \in SessionIds : Cancel(k, s)
  \/ \E m \in ModeCalls, s \in SessionIds, modeId \in RequestedModes :
       SetSessionMode(m, s, modeId)
  \/ \E m \in ModeCalls, ok \in BOOLEAN : ModeNotifyDone(m, ok)
  \/ \E task \in syncs, ok \in BOOLEAN : ModeSyncDone(task, ok)

Progress(c) ==
  /\ WF_vars(\E answer \in ReadyAnswers : PreflightDone(c, answer))
  /\ WF_vars(FinishFail(c))
  /\ WF_vars(\E ok \in BOOLEAN : PromptSyncDone(c, ok))
  /\ WF_vars(\E script \in LiveScripts : Launch(c, script, <<>>))
  /\ WF_vars(\E code \in ExitCodes : Close(c, code))
  /\ WF_vars(Finish(c))
  /\ WF_vars(FinishNotice(c))
  /\ WF_vars(\E ok \in BOOLEAN : DeliverEnd(c, ok))

SpecLive ==
  InitLive /\ [][NextLive]_vars /\ \A c \in PromptCalls : Progress(c)

\* C30: every prompt call that was made returns or rejects.
C30_PromptReturns ==
  \A c \in PromptCalls : (pc[c] # "idle") ~> (pc[c] = "done")

\* A prompt call returned although a delivery of its chain had failed and
\* a later update of the chain was delivered.
C30_Witness ==
  \E c \in PromptCalls :
    /\ pc[c] = "done"
    /\ \E i, j \in 1..Len(turn[c].sendChain) :
         /\ i < j
         /\ turn[c].sendChain[i].st = "failed"
         /\ turn[c].sendChain[j].st = "ok"

====
